---- MODULE Spec2Model ----
(***************************************************************************)
(* A model of deno_sporket: the signed message envelope (src/message.ts),  *)
(* the server-side session ServerClient, the Server registry, the Socket   *)
(* reconnect controller and the Sporket client.                            *)
(*                                                                         *)
(* Scheduling.  The program runs on a JavaScript event loop.  One action   *)
(* of the model is one task: an event handler or a resumed async function  *)
(* runs up to its next await of a genuinely asynchronous operation         *)
(* (crypto.subtle.verify / sign / digest, a timer, the transport).  An     *)
(* await of an already settled promise resumes in the same task.           *)
(***************************************************************************)
EXTENDS Integers, Sequences, FiniteSets, TLC

(***************************************************************************)
(* Bounds of the model.                                                    *)
(***************************************************************************)
MaxSessions == 2   \* WebSockets the server accepts in one run
MaxQueue == 1      \* frames in flight in one direction of one connection
MaxInflight == 1   \* concurrently suspended inbound-frame handlers per endpoint
MaxCloses == 10    \* consecutive closes of the Sporket's sockets that are counted

Sessions == 1..MaxSessions

(***************************************************************************)
(* JSON values and payloads.                                               *)
(***************************************************************************)
Undef == <<"undefined", "">>
Str(s) == <<"string", s>>
Num(n) == <<"number", ToString(n)>>
Bool(b) == <<"boolean", IF b THEN "true" ELSE "false">>
TypeOf(v) == v[1]

PayloadKeys == {"uuid", "challenge", "success", "message", "hello"}
EmptyPayload == [k \in PayloadKeys |-> Undef]
Has(p, k) == p[k] # Undef
WithKey(p, k, v) == [p EXCEPT ![k] = v]

\* crypto.randomUUID() of Server.#handleSocket for the s-th accepted socket
UuidOf(s) == "u" \o ToString(s)
Uuids == {UuidOf(s) : s \in Sessions}

\* SPORKET_PASSWORD as the server process reads it, and the values a client
\* process may hold
ServerPassword == "hunter2"
Passwords == {ServerPassword, "wrong"}

\* base64(SHA-256(UTF-8(text))): a collision-free digest of the text
Digest(text) == "sha256(" \o text \o ")"
Challenge(password, uuid) == Digest(password \o uuid)

MsgBadSignature == "Bad Request (invalid signature)"
MsgRespond == "Unauthorized (respond to challenge)"
MsgAuthFailed == "Unauthorized (authentication failed)"

Payloads ==
    {EmptyPayload,
     WithKey(EmptyPayload, "success", Bool(TRUE)),
     WithKey(EmptyPayload, "hello", Str("world")),
     WithKey(EmptyPayload, "challenge", Num(42))}
    \cup {WithKey(EmptyPayload, "message", Str(t)) :
            t \in {MsgBadSignature, MsgRespond, MsgAuthFailed}}
    \cup {WithKey(EmptyPayload, "uuid", Str(u)) : u \in Uuids}
    \cup {WithKey(WithKey(EmptyPayload, "hello", Str("world")), "uuid", Str(u)) : u \in Uuids}
    \cup {WithKey(EmptyPayload, "challenge", Str(Challenge(pw, u))) :
            pw \in Passwords, u \in Uuids}

\* JSON.stringify of one member; undefined members are left out
Member(p, k) == IF Has(p, k) THEN k \o ":" \o p[k][1] \o ":" \o p[k][2] \o ";" ELSE ""
\* base64.encode(JSON.stringify(payload)): the payload as it is on the wire
Encode(p) ==
    "{" \o Member(p, "uuid") \o Member(p, "challenge") \o Member(p, "success")
        \o Member(p, "message") \o Member(p, "hello") \o "}"

(***************************************************************************)
(* Envelope codec, src/message.ts.                                         *)
(***************************************************************************)
NoKey == <<"nokey", "">>
\* crypto.subtle.importKey('raw', UTF-8(uuid), HMAC/SHA-256)
ImportKey(raw) == <<"key", raw>>
IsCryptoKey(k) == k[1] = "key"

NoSignature == <<"", "">>
\* HMAC-SHA-256 tag of data under key, base64 encoded
Hmac(k, data) == <<k[2], data>>

MsgIds == {"id"}   \* values of crypto.randomUUID() in createMessage
Nows == {1}        \* values of Date.now() in createMessage

\* the byte string signMessage and verifyMessage authenticate
CanonicalWithType(m) == m.id \o ToString(m.now) \o m.type \o ToString(m.status) \o m.payload
Canonical(m) == m.id \o ToString(m.now) \o m.payload

parseMessage(m) ==
    IF \E p \in Payloads : Encode(p) = m.payload
    THEN CHOOSE p \in Payloads : Encode(p) = m.payload
    ELSE EmptyPayload

createMessage(id, now, payload, type, status) ==
    [id |-> id, now |-> now, type |-> type, status |-> status,
     payload |-> Encode(payload), signature |-> NoSignature]

signMessage(m, k) == [m EXCEPT !.signature = Hmac(k, Canonical(m))]

verifyKeyOnly(m, k) == IsCryptoKey(k)
verifyMessage(m, k) ==
    IF ~IsCryptoKey(k) THEN FALSE ELSE m.signature = Hmac(k, Canonical(m))

BlankMsg == createMessage("", 0, EmptyPayload, "", 0)

\* no message has been handed to the codec
NoCodec ==
    [stage |-> "none", key |-> NoKey, msg |-> BlankMsg, signed |-> BlankMsg, verified |-> "none",
     retyped |-> "none"]

\* a WebSocket text frame: JSON.stringify(message), or text that is not JSON
JsonFrame(m) == [json |-> TRUE, msg |-> m]
TextFrame == [json |-> FALSE, msg |-> BlankMsg]

OK == 200
BADREQUEST == 400
UNAUTHORIZED == 401
TEAPOT == 418

(***************************************************************************)
(* State.                                                                  *)
(***************************************************************************)
VARIABLES
    abort,            \* Server.#abort: "undefined", "active" or "aborted"
    handles,          \* Server.#handles: uuid -> session holding the Handle
    closePc,          \* position of a running Server.close()
    closeIter,        \* last session its first loop has visited
    sockState,        \* readyState of the session's WebSocket ("NONE": not accepted yet)
    aborted,          \* ServerClient.#controller.signal.aborted
    keyPending,       \* sessions whose importKey(...).then has not run yet
    cryptoKey,        \* ServerClient.#cryptoKey
    isAuthenticated,  \* ServerClient.#isAuthenticated
    listeners,        \* the Server's listeners on the ServerClient
    inbox,            \* frames on their way to the session
    outbox,           \* frames the session has transmitted to its peer
    inflight,         \* suspended async calls of the session
    link,             \* the session the Sporket's current WebSocket reached (0: none)
    props,            \* SocketProps the Sporket was constructed with
    clientPw,         \* SPORKET_PASSWORD as the client process reads it
    sp,               \* the private fields of the Sporket and of its Socket base
    spInflight,       \* suspended async calls of the Sporket
    spClosePending,   \* `close` events handleClose has scheduled and not yet dispatched
    spAuthFired,      \* history: `authenticated` was dispatched since the last new WebSocket()
    spHist,           \* history of the Socket: closes and reconnects since the last open
    srvHist,          \* history of the last Server.close() and Server.send() calls
    codec,            \* a message handed to signMessage and verifyMessage, with their results
    events            \* events dispatched and frames handed to unmodelled peers by the last task

serverVars == <<abort, handles, closePc, closeIter, sockState, aborted, keyPending,
                cryptoKey, isAuthenticated, listeners, inbox, outbox, inflight, srvHist>>
spVars == <<props, clientPw, sp, spInflight, spClosePending, spAuthFired, spHist, codec>>
vars == <<serverVars, link, spVars, events>>

AllListeners == {"connect", "disconnect", "authenticated", "message"}

\* `registered` is what a listener of the event finds in the registry for the
\* session when it is called
Event(src, who, name, detail) ==
    [src |-> src, who |-> who, name |-> name, status |-> 0, detail |-> detail, registered |-> FALSE]
\* a rejected promise nothing handles; `cause` is the name of the exception
Unhandled(who, cause) ==
    Event("process", who, "unhandledrejection", WithKey(EmptyPayload, "message", Str(cause)))

Task(pc, msg, out, cont) == [pc |-> pc, msg |-> msg, out |-> out, cont |-> cont]

RemoveAt(seq, i) == SubSeq(seq, 1, i - 1) \o SubSeq(seq, i + 1, Len(seq))

Min(S) == CHOOSE x \in S : \A y \in S : x <= y

\* defaults of the Socket constructor
DefaultMaxAttempts == 10
DefaultMinWaitTime == 2000
DefaultMaxWaitTime == 10000
DefaultWaitExtend == 1000
InitialWaitTime == 1000
CloseEventDelay == 1
DefaultProps ==
    [autoConnect |-> TRUE, maxAttempts |-> DefaultMaxAttempts, minWaitTime |-> DefaultMinWaitTime,
     maxWaitTime |-> DefaultMaxWaitTime, waitExtend |-> DefaultWaitExtend]

\* a Socket that has not called connect()
NewSocket ==
    [socket |-> "NONE", attached |-> FALSE, waitTime |-> InitialWaitTime, attemptCount |-> 0,
     attemptTimeout |-> 0, uuid |-> "", cryptoKey |-> NoKey, isAuthenticated |-> FALSE]

\* history of a Socket that has not called connect(): handleClose runs and
\* reconnects it has scheduled since the last handleOpen (or since
\* construction), whether handleOpen has run at all, whether the current
\* WebSocket is one of which no frame has been handled yet, whether the
\* application's last call was disconnect() and whether that call found a
\* reconnect timer pending, and whether it has called disconnect() on an open
\* socket with no `close` event dispatched since
NewHist == [closes |-> 0, scheduled |-> 0, opened |-> FALSE, fresh |-> FALSE,
            stopped |-> FALSE, cancelled |-> FALSE, owed |-> FALSE]

\* history of a Server on which close() and send() have not been called: the
\* sessions authenticated when the running close() was called and those it has
\* transmitted ERROR/418 to; the sessions authenticated when the last send()
\* was called, the copies it has transmitted to each session, and how far it is;
\* the last frame that arrived while the handler of an earlier one was suspended;
\* the sessions the Server has dispatched `clientconnect` for, and those it
\* has dispatched `clientdisconnect` for
NewSrvHist ==
    [closeSnap |-> {}, closeSent |-> {},
     bcSnap |-> {}, bcSent |-> [s \in Sessions |-> 0], bcState |-> "none",
     later |-> BlankMsg, connected |-> {}, gone |-> {}]

ServerInit ==
    /\ srvHist = NewSrvHist
    /\ abort = "undefined"
    /\ handles = [u \in {} |-> 0]
    /\ closePc = "idle"
    /\ closeIter = 0
    /\ sockState = [s \in Sessions |-> "NONE"]
    /\ aborted = [s \in Sessions |-> FALSE]
    /\ keyPending = {}
    /\ cryptoKey = [s \in Sessions |-> NoKey]
    /\ isAuthenticated = [s \in Sessions |-> FALSE]
    /\ listeners = [s \in Sessions |-> {}]
    /\ inbox = [s \in Sessions |-> <<>>]
    /\ outbox = [s \in Sessions |-> <<>>]
    /\ inflight = [s \in Sessions |-> <<>>]
    /\ link = 0
    /\ events = <<>>

\* the server alone: a Sporket constructed with autoConnect: false that is
\* never connected
Init ==
    /\ ServerInit
    /\ props = [DefaultProps EXCEPT !.autoConnect = FALSE]
    /\ clientPw = ServerPassword
    /\ sp = NewSocket
    /\ spInflight = <<>>
    /\ spClosePending = 0
    /\ spAuthFired = FALSE
    /\ spHist = NewHist
    /\ codec = NoCodec

(***************************************************************************)
(* ServerClient, src/unnamed/part_002.                                     *)
(***************************************************************************)
InRegistry(s) == UuidOf(s) \in DOMAIN handles /\ handles[UuidOf(s)] = s
Registered == {s \in Sessions : InRegistry(s)}

\* ServerClient.isConnected
isConnected(s) == sockState[s] = "OPEN"

\* the guard of #handleMessage on forwarding a verified frame
canForwardAlways(s) == TRUE
canForwardNever(s) == FALSE
canForward(s) == isAuthenticated[s]

\* the events of a ServerClient dispatching `name`, with the Server's listener
\* for it when that is subscribed
ClientDispatchUnattributed(s, name, detail) ==
    <<Event("client", s, name, detail)>> \o
    (IF name \in listeners[s]
     THEN CASE name = "authenticated" ->
                 <<Event("server", s, "clientconnect", WithKey(EmptyPayload, "uuid", Str(UuidOf(s))))>>
            [] name = "message" ->
                 <<Event("server", s, "message", detail)>>
            [] OTHER -> <<>>
     ELSE <<>>)
ClientDispatch(s, name, detail) ==
    <<Event("client", s, name, detail)>> \o
    (IF name \in listeners[s]
     THEN CASE name = "authenticated" ->
                 <<Event("server", s, "clientconnect", WithKey(EmptyPayload, "uuid", Str(UuidOf(s))))>>
            [] name = "message" ->
                 <<Event("server", s, "message", WithKey(detail, "uuid", Str(UuidOf(s))))>>
            [] OTHER -> <<>>
     ELSE <<>>)

\* the frame reaches the peer: the Sporket when the session is its current
\* connection, otherwise a peer outside the model
Transmit(s, m) ==
    IF s = link
    THEN /\ outbox' = [outbox EXCEPT ![s] = Append(@, JsonFrame(m))]
    ELSE /\ outbox' = outbox
Wire(s, m) ==
    IF s = link THEN <<>>
    ELSE <<[Event("wire", s, m.type, parseMessage(m)) EXCEPT !.status = m.status]>>
CanTransmit(s) == s = link => Len(outbox[s]) < MaxQueue

\* ServerClient.send up to its await: "false" (not connected), "throw"
\* (signMessage rejects without a key) or "await" (suspended in signMessage)
SendOutcome(s) ==
    IF ~isConnected(s) THEN "false"
    ELSE IF ~IsCryptoKey(cryptoKey[s]) THEN "throw" ELSE "await"

SignTask(s, msg, id, now, type, status, payload, cont) ==
    Task("sign", msg, signMessage(createMessage(id, now, payload, type, status), cryptoKey[s]), cont)

\* `await this.send(type, status, payload)` as the last statement of the
\* handler of frame msg; `rest` are the session's other suspended calls
FinalSend(s, msg, rest, id, now, type, status, payload) ==
    CASE SendOutcome(s) = "false" ->
            /\ inflight' = [inflight EXCEPT ![s] = rest]
            /\ events' = <<>>
      [] SendOutcome(s) = "throw" ->
            /\ inflight' = [inflight EXCEPT ![s] = rest]
            /\ events' = <<Unhandled(s, "TypeError")>>
      [] OTHER ->
            /\ inflight' = [inflight EXCEPT ![s] = Append(rest, SignTask(s, msg, id, now, type, status, payload, "none"))]
            /\ events' = <<>>

ErrorPayload(text) == WithKey(EmptyPayload, "message", Str(text))

\* ServerClient.disconnect() on every session of D, and Server.#handleDisconnect
\* for those whose `disconnect` listener is subscribed
NotifiedNone(D) == {}
NotifiedAgain(D) == D
Notified(D) == {s \in D : "disconnect" \in listeners[s] /\ UuidOf(s) \in DOMAIN handles}
\* the sessions #handleDisconnect unsubscribes from and deletes from the registry
UnregisteredNone(D) == {}
Unregistered(D) == Notified(D)

RECURSIVE DisconnectEvents(_, _)
DisconnectEvents(D, k) ==
    IF k > MaxSessions THEN <<>>
    ELSE (IF k \in D
          THEN <<Event("client", k, "disconnect", EmptyPayload)>> \o
               (IF k \in Notified(D)
                THEN <<[Event("server", k, "clientdisconnect", WithKey(EmptyPayload, "uuid", Str(UuidOf(k))))
                          EXCEPT !.registered = k \notin Unregistered(D)]>>
                ELSE <<>>)
          ELSE <<>>) \o DisconnectEvents(D, k + 1)

\* the sessions with a `clientdisconnect` of the Server among the events
ClientDisconnects(evs) == {evs[k].who : k \in {j \in 1..Len(evs) : evs[j].src = "server" /\ evs[j].name = "clientdisconnect"}}

\* `state` is the readyState of the sockets when disconnect() is entered
Disconnect(D, state) ==
    /\ aborted' = [s \in Sessions |-> aborted[s] \/ s \in D]
    /\ sockState' = [s \in Sessions |-> IF s \in D /\ state[s] = "OPEN" THEN "CLOSING" ELSE state[s]]
    /\ isAuthenticated' = [s \in Sessions |-> IF s \in D THEN FALSE ELSE isAuthenticated[s]]
    /\ listeners' = [s \in Sessions |-> IF s \in Unregistered(D) THEN {} ELSE listeners[s]]
    /\ handles' = [u \in DOMAIN handles \ {UuidOf(s) : s \in Unregistered(D)} |-> handles[u]]

NoMicrotask == keyPending = {}

\* ServerClient.#handleMessage up to its first await, for frame f
OnMessage(s, f) ==
    IF aborted[s]
    THEN /\ events' = <<>>
         /\ UNCHANGED inflight
    ELSE IF ~f.json
    THEN /\ events' = <<Unhandled(s, "SyntaxError")>>
         /\ UNCHANGED inflight
    ELSE IF ~IsCryptoKey(cryptoKey[s])
    THEN \E id \in MsgIds, now \in Nows :
            FinalSend(s, f.msg, inflight[s], id, now, "ERROR", BADREQUEST, ErrorPayload(MsgBadSignature))
    ELSE /\ inflight' = [inflight EXCEPT ![s] = Append(@, Task("verify", f.msg, BlankMsg, "none"))]
         /\ events' = <<>>

Handlers(s) == {i \in 1..Len(inflight[s]) : inflight[s][i].msg # BlankMsg}
HandlerCount == Cardinality(UNION {{<<s, i>> : i \in Handlers(s)} : s \in Sessions})

\* a frame of the linked peer arrives
RecvFrame(s) ==
    /\ NoMicrotask
    /\ sockState[s] \in {"OPEN", "CLOSING"}
    /\ inbox[s] # <<>>
    /\ HandlerCount < MaxInflight
    /\ inbox' = [inbox EXCEPT ![s] = Tail(@)]
    /\ OnMessage(s, Head(inbox[s]))
    /\ UNCHANGED <<abort, handles, closePc, closeIter, sockState, aborted, keyPending,
                   cryptoKey, isAuthenticated, listeners, outbox, link>>

\* the frames a peer outside the model sends to session s
PeerPayloads(s) ==
    {WithKey(EmptyPayload, "challenge", Str(Challenge(pw, UuidOf(s)))) : pw \in Passwords}
    \cup {WithKey(EmptyPayload, "challenge", Num(42)), WithKey(EmptyPayload, "hello", Str("world"))}
PeerMessages(s) ==
    {createMessage(id, now, p, "AUTH", OK) : id \in MsgIds, now \in Nows, p \in PeerPayloads(s)}
    \cup {createMessage(id, now, WithKey(EmptyPayload, "hello", Str("world")), "DATA", OK) :
            id \in MsgIds, now \in Nows}
    \cup {createMessage(id, now, WithKey(WithKey(EmptyPayload, "hello", Str("world")), "uuid", Str(u)), "DATA", OK) :
            id \in MsgIds, now \in Nows, u \in Uuids \ {UuidOf(s)}}
PeerFrames(s) ==
    {TextFrame}
    \cup {JsonFrame(signMessage(m, ImportKey(UuidOf(s)))) : m \in PeerMessages(s)}
    \cup {JsonFrame(m) : m \in {x \in PeerMessages(s) :
                                   parseMessage(x) \in {WithKey(EmptyPayload, "hello", Str("world")),
                                       WithKey(EmptyPayload, "challenge", Str(Challenge(ServerPassword, UuidOf(s))))}
                                   /\ (x.type = "AUTH" <=> Has(parseMessage(x), "challenge"))}}

PeerFrame(s, f) ==
    /\ NoMicrotask
    /\ s # link
    /\ sockState[s] \in {"OPEN", "CLOSING"}
    /\ HandlerCount < MaxInflight
    /\ OnMessage(s, f)
    /\ UNCHANGED <<abort, handles, closePc, closeIter, sockState, aborted, keyPending,
                   cryptoKey, isAuthenticated, listeners, inbox, outbox, link>>

\* a frame of the peer arrives while the handler of an earlier, different
\* frame of the session is suspended at an await
PeerBurst(s, f) ==
    /\ NoMicrotask
    /\ s # link
    /\ sockState[s] \in {"OPEN", "CLOSING"}
    /\ f.json
    /\ Cardinality(Handlers(s)) = 1
    /\ HandlerCount = 1
    /\ \A i \in Handlers(s) : inflight[s][i].msg # f.msg
    /\ OnMessage(s, f)
    /\ srvHist' = [srvHist EXCEPT !.later = f.msg]
    /\ UNCHANGED <<abort, handles, closePc, closeIter, sockState, aborted, keyPending,
                   cryptoKey, isAuthenticated, listeners, inbox, outbox, link>>

\* `dispatchEvent(new CustomEvent('authenticated'))` and what #handleAuth and
\* Server.close() do once `await send(...)` has returned
Authenticated(s) == ClientDispatch(s, "authenticated", EmptyPayload)
\* the sessions with a `clientconnect` of the Server among the events
ClientConnects(evs) == {evs[k].who : k \in {j \in 1..Len(evs) : evs[j].src = "server" /\ evs[j].name = "clientconnect"}}

\* the first loop of Server.close() from iterator position k: the sessions it
\* passes without suspending are those send() returns false for at once
TeapotTargetsNone(k) == {}
TeapotTargets(k) == {x \in Registered : x > k /\ isAuthenticated[x] /\ isConnected(x)}
CloseLoop(k, infl, id, now) ==
    IF TeapotTargets(k) = {}
    THEN /\ closePc' = "wait1000"
         /\ closeIter' = 0
         /\ inflight' = infl
    ELSE LET x == Min(TeapotTargets(k)) IN
         /\ closePc' = "await"
         /\ closeIter' = x
         /\ inflight' = [infl EXCEPT ![x] = Append(@, SignTask(x, BlankMsg, id, now, "ERROR", TEAPOT, EmptyPayload, "close"))]

\* the loop of Server.send(payload) from iterator position k; `hist` is the
\* history once the step has transmitted what it transmits
BroadcastTargets(k) == {x \in Registered : x > k /\ isAuthenticated[x] /\ isConnected(x)}
BroadcastLoop(k, infl, id, now, payload, hist) ==
    IF BroadcastTargets(k) = {}
    THEN /\ inflight' = infl
         /\ srvHist' = [hist EXCEPT !.bcState = "returned"]
    ELSE LET x == Min(BroadcastTargets(k)) IN
         /\ inflight' = [infl EXCEPT ![x] = Append(@, SignTask(x, BlankMsg, id, now, "DATA", OK, payload, "broadcast"))]
         /\ srvHist' = hist

\* verifyMessage resolves in #handleMessage
ResumeVerify(s, i) ==
    /\ NoMicrotask
    /\ i \in 1..Len(inflight[s])
    /\ inflight[s][i].pc = "verify"
    /\ LET m == inflight[s][i].msg
           rest == RemoveAt(inflight[s], i)
           payload == parseMessage(m)
       IN \E id \in MsgIds, now \in Nows :
          IF verifyMessage(m, cryptoKey[s])
          THEN IF m.type = "AUTH"
               THEN IF TypeOf(payload["challenge"]) # "string"
                    THEN FinalSend(s, m, rest, id, now, "ERROR", UNAUTHORIZED, ErrorPayload(MsgAuthFailed))
                    ELSE /\ inflight' = [inflight EXCEPT ![s] = Append(rest, Task("digest", m, BlankMsg, "none"))]
                         /\ events' = <<>>
               ELSE IF canForward(s)
                    THEN /\ inflight' = [inflight EXCEPT ![s] = rest]
                         /\ events' = ClientDispatch(s, "message", payload)
                    ELSE FinalSend(s, m, rest, id, now, "ERROR", UNAUTHORIZED, ErrorPayload(MsgRespond))
          ELSE FinalSend(s, m, rest, id, now, "ERROR", BADREQUEST, ErrorPayload(MsgBadSignature))
    /\ UNCHANGED <<abort, handles, closePc, closeIter, sockState, aborted, keyPending,
                   cryptoKey, isAuthenticated, listeners, inbox, outbox, link>>

\* the comparison of #handleAuth of the challenge the frame carries
ChallengeOfAnyPassword(s, payload) ==
    \E pw \in Passwords : payload["challenge"] = Str(Challenge(pw, UuidOf(s)))
ChallengeMatches(s, payload) == payload["challenge"] = Str(Challenge(ServerPassword, UuidOf(s)))

\* crypto.subtle.digest resolves in #handleAuth
ResumeDigest(s, i) ==
    /\ NoMicrotask
    /\ i \in 1..Len(inflight[s])
    /\ inflight[s][i].pc = "digest"
    /\ LET m == inflight[s][i].msg
           rest == RemoveAt(inflight[s], i)
       IN \E id \in MsgIds, now \in Nows :
          IF ChallengeMatches(s, parseMessage(m))
          THEN /\ isAuthenticated' = [isAuthenticated EXCEPT ![s] = TRUE]
               /\ CASE SendOutcome(s) = "false" ->
                        /\ inflight' = [inflight EXCEPT ![s] = rest]
                        /\ events' = Authenticated(s)
                    [] SendOutcome(s) = "throw" ->
                        /\ inflight' = [inflight EXCEPT ![s] = rest]
                        /\ events' = <<Unhandled(s, "TypeError")>>
                    [] OTHER ->
                        /\ inflight' = [inflight EXCEPT ![s] =
                               Append(rest, SignTask(s, m, id, now, "AUTH", OK,
                                                     WithKey(EmptyPayload, "success", Bool(TRUE)), "authenticated"))]
                        /\ events' = <<>>
          ELSE /\ FinalSend(s, m, rest, id, now, "ERROR", UNAUTHORIZED, ErrorPayload(MsgAuthFailed))
               /\ UNCHANGED isAuthenticated
    /\ srvHist' = [srvHist EXCEPT !.connected = @ \cup ClientConnects(events')]
    /\ UNCHANGED <<abort, handles, closePc, closeIter, sockState, aborted, keyPending,
                   cryptoKey, listeners, inbox, outbox, link>>

\* signMessage resolves in ServerClient.send, which then calls socket.send.
\* On a socket that is no longer open socket.send transmits nothing; whether
\* it throws is up to the WebSocket implementation (`throws`).
ResumeSign(s, i, throws) ==
    /\ NoMicrotask
    /\ i \in 1..Len(inflight[s])
    /\ inflight[s][i].pc = "sign"
    /\ LET t == inflight[s][i]
           rest == [inflight EXCEPT ![s] = RemoveAt(inflight[s], i)]
       IN IF isConnected(s)
          THEN /\ ~throws
               /\ CanTransmit(s)
               /\ Transmit(s, t.out)
               /\ CASE t.cont = "authenticated" ->
                        /\ events' = Wire(s, t.out) \o Authenticated(s)
                        /\ inflight' = rest
                        /\ srvHist' = [srvHist EXCEPT !.connected = @ \cup ClientConnects(events')]
                        /\ UNCHANGED <<closePc, closeIter>>
                    [] t.cont = "close" ->
                        /\ events' = Wire(s, t.out)
                        /\ srvHist' = [srvHist EXCEPT !.closeSent = @ \cup {s}]
                        /\ \E id \in MsgIds, now \in Nows : CloseLoop(s, rest, id, now)
                    [] t.cont = "broadcast" ->
                        /\ events' = Wire(s, t.out)
                        /\ \E id \in MsgIds, now \in Nows :
                             BroadcastLoop(s, rest, id, now, parseMessage(t.out),
                                           [srvHist EXCEPT !.bcSent[s] = IF @ < 2 THEN @ + 1 ELSE @])
                        /\ UNCHANGED <<closePc, closeIter>>
                    [] t.cont = "sendTo" ->
                        /\ events' = Wire(s, t.out) \o <<Event("server", s, "sendTo returned true", parseMessage(t.out))>>
                        /\ inflight' = rest
                        /\ UNCHANGED <<closePc, closeIter, srvHist>>
                    [] OTHER ->
                        /\ events' = Wire(s, t.out)
                        /\ inflight' = rest
                        /\ UNCHANGED <<closePc, closeIter, srvHist>>
          ELSE /\ UNCHANGED outbox
               /\ CASE t.cont = "authenticated" ->
                        \* a throw is caught in #handleAuth, whose reply is
                        \* then refused by send() as the socket is not open
                        /\ events' = IF throws THEN <<>> ELSE Authenticated(s)
                        /\ inflight' = rest
                        /\ srvHist' = [srvHist EXCEPT !.connected = @ \cup ClientConnects(events')]
                        /\ UNCHANGED <<closePc, closeIter>>
                    [] t.cont = "close" ->
                        IF throws
                        THEN /\ events' = <<Event("server", s, "close rejected", EmptyPayload)>>
                             /\ inflight' = rest
                             /\ closePc' = "idle"
                             /\ closeIter' = 0
                             /\ srvHist' = [srvHist EXCEPT !.closeSnap = {}, !.closeSent = {}]
                        ELSE /\ events' = <<>>
                             /\ UNCHANGED srvHist
                             /\ \E id \in MsgIds, now \in Nows : CloseLoop(s, rest, id, now)
                    [] t.cont = "broadcast" ->
                        /\ UNCHANGED <<closePc, closeIter>>
                        /\ IF throws
                           THEN /\ events' = <<Event("server", s, "send rejected", parseMessage(t.out))>>
                                /\ inflight' = rest
                                /\ srvHist' = [srvHist EXCEPT !.bcState = "rejected"]
                           ELSE /\ events' = <<>>
                                /\ \E id \in MsgIds, now \in Nows :
                                     BroadcastLoop(s, rest, id, now, parseMessage(t.out), srvHist)
                    [] t.cont = "sendTo" ->
                        /\ events' = IF throws
                                     THEN <<Event("server", s, "sendTo rejected", parseMessage(t.out))>>
                                     ELSE <<Event("server", s, "sendTo returned true", parseMessage(t.out))>>
                        /\ inflight' = rest
                        /\ UNCHANGED <<closePc, closeIter, srvHist>>
                    [] OTHER ->
                        /\ events' = IF throws THEN <<Unhandled(s, "InvalidStateError")>> ELSE <<>>
                        /\ inflight' = rest
                        /\ UNCHANGED <<closePc, closeIter, srvHist>>
    /\ UNCHANGED <<abort, handles, sockState, aborted, keyPending,
                   cryptoKey, isAuthenticated, listeners, inbox, link>>

\* the `.then` of the key import started in the ServerClient constructor
KeyImported(s) ==
    /\ s \in keyPending
    /\ keyPending' = keyPending \ {s}
    /\ cryptoKey' = [cryptoKey EXCEPT ![s] = ImportKey(UuidOf(s))]
    /\ events' = <<>>
    /\ UNCHANGED <<abort, handles, closePc, closeIter, sockState, aborted,
                   isAuthenticated, listeners, inbox, outbox, inflight, link>>

\* the `open` event of the session's socket: #handleOpen, Server.#handleConnect
SocketOpen(s) ==
    /\ NoMicrotask
    /\ sockState[s] = "CONNECTING"
    /\ sockState' = [sockState EXCEPT ![s] = "OPEN"]
    /\ IF aborted[s]
       THEN /\ events' = <<>>
            /\ UNCHANGED inflight
       ELSE IF "connect" \in listeners[s] /\ UuidOf(s) \in DOMAIN handles
       THEN IF IsCryptoKey(cryptoKey[s])
            THEN \E id \in MsgIds, now \in Nows :
                 /\ inflight' = [inflight EXCEPT ![s] =
                        Append(@, SignTask(s, BlankMsg, id, now, "AUTH", OK,
                                           WithKey(EmptyPayload, "uuid", Str(UuidOf(s))), "none"))]
                 /\ events' = ClientDispatch(s, "connect", EmptyPayload)
            ELSE /\ events' = ClientDispatch(s, "connect", EmptyPayload) \o <<Unhandled(s, "TypeError")>>
                 /\ UNCHANGED inflight
       ELSE /\ events' = ClientDispatch(s, "connect", EmptyPayload)
            /\ UNCHANGED inflight
    /\ UNCHANGED <<abort, handles, closePc, closeIter, aborted, keyPending,
                   cryptoKey, isAuthenticated, listeners, inbox, outbox, link>>

\* the transport of session s is closed: `close` event, #handleClose
TransportClose(s) ==
    /\ NoMicrotask
    /\ sockState[s] \in {"CONNECTING", "OPEN", "CLOSING"}
    /\ IF aborted[s]
       THEN /\ sockState' = [sockState EXCEPT ![s] = "CLOSED"]
            /\ events' = <<>>
            /\ UNCHANGED <<aborted, isAuthenticated, listeners, handles>>
       ELSE /\ Disconnect({s}, [sockState EXCEPT ![s] = "CLOSED"])
            /\ events' = DisconnectEvents({s}, 1)
    /\ srvHist' = [srvHist EXCEPT !.gone = @ \cup ClientDisconnects(events')]
    /\ UNCHANGED <<abort, closePc, closeIter, keyPending, cryptoKey, inbox, outbox, inflight, link>>

\* ServerClient.disconnect() is called on a session on which it has been called
DisconnectAgain(s) ==
    /\ NoMicrotask
    /\ aborted[s]
    /\ Disconnect({s}, sockState)
    /\ events' = DisconnectEvents({s}, 1)
    /\ srvHist' = [srvHist EXCEPT !.gone = @ \cup ClientDisconnects(events')]
    /\ UNCHANGED <<abort, closePc, closeIter, keyPending, cryptoKey, inbox, outbox, inflight, link>>

\* the transport of session s fails: `error` event, #handleError, then `close`
TransportError(s) ==
    /\ NoMicrotask
    /\ sockState[s] \in {"CONNECTING", "OPEN"}
    /\ IF aborted[s]
       THEN /\ sockState' = [sockState EXCEPT ![s] = "CLOSED"]
            /\ events' = <<>>
            /\ UNCHANGED <<aborted, isAuthenticated, listeners, handles>>
       ELSE /\ Disconnect({s}, [sockState EXCEPT ![s] = "CLOSED"])
            /\ events' = <<Event("socket", s, "error", EmptyPayload)>> \o DisconnectEvents({s}, 1)
    /\ srvHist' = [srvHist EXCEPT !.gone = @ \cup ClientDisconnects(events')]
    /\ UNCHANGED <<abort, closePc, closeIter, keyPending, cryptoKey, inbox, outbox, inflight, link>>

(***************************************************************************)
(* Server, src/unnamed/part_003.                                           *)
(***************************************************************************)
\* Server.listen()
ListenRestarts ==
    /\ NoMicrotask
    /\ IF abort # "undefined"
       THEN /\ events' = <<Event("server", 0, "throw", ErrorPayload("Server is already listening!"))>>
            /\ abort' = "active"
       ELSE /\ abort' = "active"
            /\ events' = <<>>
    /\ UNCHANGED <<handles, closePc, closeIter, sockState, aborted, keyPending,
                   cryptoKey, isAuthenticated, listeners, inbox, outbox, inflight, link>>
Listen ==
    /\ NoMicrotask
    /\ IF abort # "undefined"
       THEN /\ events' = <<Event("server", 0, "throw", ErrorPayload("Server is already listening!"))>>
            /\ UNCHANGED abort
       ELSE /\ abort' = "active"
            /\ events' = <<>>
    /\ UNCHANGED <<handles, closePc, closeIter, sockState, aborted, keyPending,
                   cryptoKey, isAuthenticated, listeners, inbox, outbox, inflight, link>>

FreeSessions == {s \in Sessions : sockState[s] = "NONE"}

\* Server.#handleSocket for an upgraded request, and the ServerClient constructor
handleSocket(s) ==
    /\ sockState' = [sockState EXCEPT ![s] = "CONNECTING"]
    /\ keyPending' = keyPending \cup {s}
    /\ listeners' = [listeners EXCEPT ![s] = AllListeners]
    /\ handles' = [u \in DOMAIN handles \cup {UuidOf(s)} |-> IF u = UuidOf(s) THEN s ELSE handles[u]]
    /\ events' = <<>>
    /\ UNCHANGED <<abort, closePc, closeIter, aborted, cryptoKey, isAuthenticated, inbox, outbox, inflight>>

\* a peer outside the model requests the upgrade
Upgrade ==
    /\ NoMicrotask
    /\ abort = "active"
    /\ FreeSessions # {}
    /\ handleSocket(Min(FreeSessions))
    /\ UNCHANGED link

\* Server.close() is called: its first loop up to the first await
CloseCall ==
    /\ NoMicrotask
    /\ closePc = "idle"
    /\ \E id \in MsgIds, now \in Nows : CloseLoop(0, inflight, id, now)
    /\ srvHist' = [srvHist EXCEPT !.closeSnap = {s \in Registered : isAuthenticated[s]},
                                  !.closeSent = {}]
    /\ events' = <<>>
    /\ UNCHANGED <<abort, handles, sockState, aborted, keyPending,
                   cryptoKey, isAuthenticated, listeners, inbox, outbox, link>>

\* the 1000 ms timer of Server.close() fires: disconnect() on every handle
CloseDisconnect ==
    /\ NoMicrotask
    /\ closePc = "wait1000"
    /\ closePc' = "wait500"
    /\ Disconnect(Registered, sockState)
    /\ events' = DisconnectEvents(Registered, 1)
    /\ srvHist' = [srvHist EXCEPT !.gone = @ \cup ClientDisconnects(events')]
    /\ UNCHANGED <<abort, closeIter, keyPending, cryptoKey, inbox, outbox, inflight, link>>

\* the 500 ms timer of Server.close() fires: the acceptor is aborted
CloseAbort ==
    /\ NoMicrotask
    /\ closePc = "wait500"
    /\ closePc' = "idle"
    /\ abort' = IF abort = "active" THEN "aborted" ELSE abort
    /\ srvHist' = [srvHist EXCEPT !.closeSnap = {}, !.closeSent = {}]
    /\ events' = <<>>
    /\ UNCHANGED <<handles, closeIter, sockState, aborted, keyPending,
                   cryptoKey, isAuthenticated, listeners, inbox, outbox, inflight, link>>

\* the suspended calls of ServerClient.send made by Server.send or Server.sendTo
Calls(cont) == {x \in Sessions : \E i \in 1..Len(inflight[x]) : inflight[x][i].cont = cont}

\* Server.send(payload) is called: its loop up to the first await
SendCall(payload) ==
    /\ NoMicrotask
    /\ Calls("broadcast") = {}
    /\ \E id \in MsgIds, now \in Nows :
         BroadcastLoop(0, inflight, id, now, payload,
                       [srvHist EXCEPT !.bcSnap = {s \in Registered : isAuthenticated[s]},
                                       !.bcSent = [s \in Sessions |-> 0],
                                       !.bcState = "running"])
    /\ events' = <<>>
    /\ UNCHANGED <<abort, handles, closePc, closeIter, sockState, aborted, keyPending,
                   cryptoKey, isAuthenticated, listeners, inbox, outbox, link>>

\* Server.sendTo(uuid, payload) is called, up to its await or its return
SendToCall(uuid, payload) ==
    /\ NoMicrotask
    /\ Calls("sendTo") = {}
    /\ IF uuid \in DOMAIN handles /\ isAuthenticated[handles[uuid]]
       THEN LET x == handles[uuid] IN
            CASE SendOutcome(x) = "false" ->
                    /\ events' = <<Event("server", x, "sendTo returned true", payload)>>
                    /\ UNCHANGED inflight
              [] SendOutcome(x) = "throw" ->
                    /\ events' = <<Event("server", x, "sendTo rejected", payload)>>
                    /\ UNCHANGED inflight
              [] OTHER ->
                    /\ \E id \in MsgIds, now \in Nows :
                         inflight' = [inflight EXCEPT ![x] =
                                         Append(@, SignTask(x, BlankMsg, id, now, "DATA", OK, payload, "sendTo"))]
                    /\ events' = <<>>
       ELSE /\ events' = <<Event("server", 0, "sendTo returned false", WithKey(payload, "uuid", Str(uuid)))>>
            /\ UNCHANGED inflight
    /\ UNCHANGED <<abort, handles, closePc, closeIter, sockState, aborted, keyPending,
                   cryptoKey, isAuthenticated, listeners, inbox, outbox, link, srvHist>>

ServerStep ==
    \/ (Listen /\ UNCHANGED <<spVars, srvHist>>)
    \/ (Upgrade /\ UNCHANGED <<spVars, srvHist>>)
    \/ (CloseCall /\ UNCHANGED spVars)
    \/ (CloseDisconnect /\ UNCHANGED spVars)
    \/ (CloseAbort /\ UNCHANGED spVars)
    \/ (\E s \in Sessions : KeyImported(s) /\ UNCHANGED <<spVars, srvHist>>)
    \/ (\E s \in Sessions : SocketOpen(s) /\ UNCHANGED <<spVars, srvHist>>)
    \/ (\E s \in Sessions : TransportClose(s) /\ UNCHANGED spVars)
    \/ (\E s \in Sessions : TransportError(s) /\ UNCHANGED spVars)
    \/ (\E s \in Sessions : DisconnectAgain(s) /\ UNCHANGED spVars)
    \/ (\E s \in Sessions : \E f \in PeerFrames(s) : PeerFrame(s, f) /\ UNCHANGED <<spVars, srvHist>>)
    \/ (\E s \in Sessions : \E i \in 1..(MaxInflight + 2) : ResumeVerify(s, i) /\ UNCHANGED <<spVars, srvHist>>)
    \/ (\E s \in Sessions : \E i \in 1..(MaxInflight + 2) : ResumeDigest(s, i) /\ UNCHANGED spVars)
    \/ (\E s \in Sessions : \E i \in 1..(MaxInflight + 2) : \E throws \in BOOLEAN : ResumeSign(s, i, throws) /\ UNCHANGED spVars)

SpecServer == Init /\ [][ServerStep]_vars

\* the server with an application that calls send() and sendTo() and never close()
BroadcastStep ==
    \/ (Listen /\ UNCHANGED <<spVars, srvHist>>)
    \/ (Upgrade /\ UNCHANGED <<spVars, srvHist>>)
    \/ (SendCall(WithKey(EmptyPayload, "hello", Str("world"))) /\ UNCHANGED spVars)
    \/ (\E u \in Uuids : SendToCall(u, WithKey(EmptyPayload, "hello", Str("world"))) /\ UNCHANGED spVars)
    \/ (\E s \in Sessions : KeyImported(s) /\ UNCHANGED <<spVars, srvHist>>)
    \/ (\E s \in Sessions : SocketOpen(s) /\ UNCHANGED <<spVars, srvHist>>)
    \/ (\E s \in Sessions : TransportClose(s) /\ UNCHANGED spVars)
    \/ (\E s \in Sessions : \E f \in PeerFrames(s) : PeerFrame(s, f) /\ UNCHANGED <<spVars, srvHist>>)
    \/ (\E s \in Sessions : \E i \in 1..(MaxInflight + 3) : ResumeVerify(s, i) /\ UNCHANGED <<spVars, srvHist>>)
    \/ (\E s \in Sessions : \E i \in 1..(MaxInflight + 3) : ResumeDigest(s, i) /\ UNCHANGED spVars)
    \/ (\E s \in Sessions : \E i \in 1..(MaxInflight + 3) : \E throws \in BOOLEAN : ResumeSign(s, i, throws) /\ UNCHANGED spVars)

SpecBroadcast == Init /\ [][BroadcastStep]_vars

\* the frames of a peer that knows the password and follows the protocol
LifecycleFrames(s) ==
    {JsonFrame(signMessage(createMessage(id, now, p, "AUTH", OK), ImportKey(UuidOf(s)))) :
        id \in MsgIds, now \in Nows,
        p \in {WithKey(EmptyPayload, "challenge", Str(Challenge(ServerPassword, UuidOf(s))))}}
    \cup {JsonFrame(signMessage(createMessage(id, now, p, "DATA", OK), ImportKey(UuidOf(s)))) :
            id \in MsgIds, now \in Nows, p \in {WithKey(EmptyPayload, "hello", Str("world"))}}

\* the server with such peers: sessions come and go while the application
\* calls Server.send and Server.sendTo
LifecycleStep ==
    \/ (Listen /\ UNCHANGED <<spVars, srvHist>>)
    \/ (Upgrade /\ UNCHANGED <<spVars, srvHist>>)
    \/ (SendCall(WithKey(EmptyPayload, "hello", Str("world"))) /\ UNCHANGED spVars)
    \/ (\E u \in Uuids : SendToCall(u, WithKey(EmptyPayload, "hello", Str("world"))) /\ UNCHANGED spVars)
    \/ (\E s \in Sessions : KeyImported(s) /\ UNCHANGED <<spVars, srvHist>>)
    \/ (\E s \in Sessions : SocketOpen(s) /\ UNCHANGED <<spVars, srvHist>>)
    \/ (\E s \in Sessions : TransportClose(s) /\ UNCHANGED spVars)
    \/ (\E s \in Sessions : TransportError(s) /\ UNCHANGED spVars)
    \/ (\E s \in Sessions : DisconnectAgain(s) /\ UNCHANGED spVars)
    \/ (\E s \in Sessions : \E f \in LifecycleFrames(s) : PeerFrame(s, f) /\ UNCHANGED <<spVars, srvHist>>)
    \/ (\E s \in Sessions : \E i \in 1..(MaxInflight + 3) : ResumeVerify(s, i) /\ UNCHANGED <<spVars, srvHist>>)
    \/ (\E s \in Sessions : \E i \in 1..(MaxInflight + 3) : ResumeDigest(s, i) /\ UNCHANGED spVars)
    \/ (\E s \in Sessions : \E i \in 1..(MaxInflight + 3) : \E throws \in BOOLEAN : ResumeSign(s, i, throws) /\ UNCHANGED spVars)

SpecLifecycle == Init /\ [][LifecycleStep]_vars

\* the server with one session whose peer sends frames back to back
PipelineStep ==
    \/ (Listen /\ UNCHANGED <<spVars, srvHist>>)
    \/ (Upgrade /\ FreeSessions = Sessions /\ UNCHANGED <<spVars, srvHist>>)
    \/ (\E s \in Sessions : KeyImported(s) /\ UNCHANGED <<spVars, srvHist>>)
    \/ (\E s \in Sessions : SocketOpen(s) /\ UNCHANGED <<spVars, srvHist>>)
    \/ (\E s \in Sessions : TransportClose(s) /\ UNCHANGED spVars)
    \/ (\E s \in Sessions : \E f \in PeerFrames(s) : PeerFrame(s, f) /\ UNCHANGED <<spVars, srvHist>>)
    \/ (\E s \in Sessions : \E f \in PeerFrames(s) : PeerBurst(s, f) /\ UNCHANGED spVars)
    \/ (\E s \in Sessions : \E i \in 1..(MaxInflight + 3) : ResumeVerify(s, i) /\ UNCHANGED <<spVars, srvHist>>)
    \/ (\E s \in Sessions : \E i \in 1..(MaxInflight + 3) : ResumeDigest(s, i) /\ UNCHANGED spVars)
    \/ (\E s \in Sessions : \E i \in 1..(MaxInflight + 3) : \E throws \in BOOLEAN : ResumeSign(s, i, throws) /\ UNCHANGED spVars)

SpecPipeline == Init /\ [][PipelineStep]_vars

(***************************************************************************)
(* Socket, src/src/Socket.ts.                                              *)
(***************************************************************************)
SpEvent(name, detail) == Event("sporket", 0, name, detail)

\* the `reset` listener the Sporket constructor adds for `close` and `disconnect`
reset(o) == [o EXCEPT !.isAuthenticated = FALSE, !.cryptoKey = NoKey, !.uuid = ""]

\* Socket.disconnect(), with the Sporket's listener of the `disconnect` event
disconnectKeepsTimer(o) ==
    IF o.socket = "NONE"
    THEN o
    ELSE reset([o EXCEPT !.attached = FALSE,
                         !.socket = IF @ \in {"CONNECTING", "OPEN"} THEN "CLOSING" ELSE @])
disconnectKeepsListeners(o) ==
    IF o.socket = "NONE"
    THEN [o EXCEPT !.attemptTimeout = 0]
    ELSE reset([o EXCEPT !.attemptTimeout = 0,
                         !.socket = IF @ \in {"CONNECTING", "OPEN"} THEN "CLOSING" ELSE @])
disconnect(o) ==
    IF o.socket = "NONE"
    THEN [o EXCEPT !.attemptTimeout = 0]
    ELSE reset([o EXCEPT !.attemptTimeout = 0,
                         !.attached = FALSE,
                         !.socket = IF @ \in {"CONNECTING", "OPEN"} THEN "CLOSING" ELSE @])
disconnectEvents(o) == IF o.socket = "NONE" THEN <<>> ELSE <<SpEvent("disconnect", EmptyPayload)>>

\* Socket.connect()
connect(o) == [disconnect(o) EXCEPT !.socket = "CONNECTING", !.attached = TRUE]

\* Socket.handleOpen
handleOpen(o) == [o EXCEPT !.waitTime = props.minWaitTime, !.attemptCount = 0]

\* Socket.handleClose, on the `close` event of the WebSocket
GivesUpEarly(o) == props.maxAttempts > 0 /\ o.attemptCount + 1 >= props.maxAttempts
GivesUpLate(o) == props.maxAttempts > 0 /\ o.attemptCount > props.maxAttempts
GivesUp(o) == props.maxAttempts > 0 /\ o.attemptCount >= props.maxAttempts
handleCloseUnclamped(o) ==
    LET c == [o EXCEPT !.socket = "CLOSED", !.attemptTimeout = 0] IN
    IF GivesUp(o)
    THEN disconnect([c EXCEPT !.attemptCount = @ + 1])
    ELSE LET d == [c EXCEPT !.attemptCount = IF props.maxAttempts > 0 THEN @ + 1 ELSE @] IN
         IF ~props.autoConnect
         THEN d
         ELSE [d EXCEPT !.attemptTimeout = o.waitTime, !.waitTime = @ + props.waitExtend]
handleClose(o) ==
    LET c == [o EXCEPT !.socket = "CLOSED", !.attemptTimeout = 0] IN
    IF GivesUp(o)
    THEN disconnect([c EXCEPT !.attemptCount = @ + 1])
    ELSE LET d == [c EXCEPT !.attemptCount = IF props.maxAttempts > 0 THEN @ + 1 ELSE @] IN
         IF ~props.autoConnect
         THEN d
         ELSE [d EXCEPT !.attemptTimeout = o.waitTime,
                        !.waitTime = IF @ + props.waitExtend > props.maxWaitTime
                                     THEN props.maxWaitTime
                                     ELSE @ + props.waitExtend]
handleCloseEvents(o) == IF GivesUp(o) THEN <<SpEvent("disconnect", EmptyPayload)>> ELSE <<>>

\* the Sporket's WebSocket no longer reaches the session it was linked to
\* when connect() has replaced it (`fresh`) or when it is closing or closed
Relink(ob, o, fresh) ==
    IF link # 0 /\ (fresh \/ o.socket \notin {"CONNECTING", "OPEN"})
    THEN /\ link' = 0
         /\ outbox' = [ob EXCEPT ![link] = <<>>]
    ELSE /\ link' = link
         /\ outbox' = ob

srvCore == <<abort, handles, closePc, closeIter, sockState, aborted, keyPending,
             cryptoKey, isAuthenticated, listeners, inflight, srvHist>>

\* the application calls connect()
AppConnect ==
    /\ NoMicrotask
    /\ sp' = connect(sp)
    /\ events' = disconnectEvents(sp)
    /\ spAuthFired' = FALSE
    /\ spHist' = [spHist EXCEPT !.fresh = TRUE, !.stopped = FALSE, !.cancelled = FALSE]
    /\ Relink(outbox, sp', TRUE)
    /\ UNCHANGED <<srvCore, codec, inbox, props, clientPw, spInflight, spClosePending>>

\* the application calls disconnect()
AppDisconnect ==
    /\ NoMicrotask
    /\ sp' = disconnect(sp)
    /\ events' = disconnectEvents(sp)
    /\ spHist' = [spHist EXCEPT !.stopped = TRUE,
                                !.cancelled = sp.attemptTimeout > 0,
                                !.owed = @ \/ sp.socket = "OPEN"]
    /\ Relink(outbox, sp', FALSE)
    /\ UNCHANGED <<srvCore, codec, inbox, props, clientPw, spInflight, spClosePending, spAuthFired>>

\* the reconnect timer of handleClose fires; a timer set later for a longer
\* delay does not fire before the `close` timer of the same handleClose
ReconnectTimer ==
    /\ NoMicrotask
    /\ sp.attemptTimeout > 0
    /\ sp.attemptTimeout > CloseEventDelay => spClosePending = 0
    /\ sp' = connect(sp)
    /\ events' = <<Event("timer", 0, "connect", EmptyPayload)>> \o disconnectEvents(sp)
    /\ spAuthFired' = FALSE
    /\ spHist' = [spHist EXCEPT !.fresh = TRUE]
    /\ Relink(outbox, sp', TRUE)
    /\ UNCHANGED <<srvCore, codec, inbox, props, clientPw, spInflight, spClosePending>>

\* the timer of handleClose dispatches `close` on the Socket
CloseEventTimer ==
    /\ NoMicrotask
    /\ spClosePending > 0
    /\ spClosePending' = spClosePending - 1
    /\ sp' = reset(sp)
    /\ events' = <<SpEvent("close", EmptyPayload)>>
    /\ spHist' = [spHist EXCEPT !.owed = FALSE]
    /\ UNCHANGED <<srvCore, codec, inbox, outbox, link, props, clientPw, spInflight, spAuthFired>>

\* the WebSocket opens
SpTransportOpen ==
    /\ NoMicrotask
    /\ sp.socket = "CONNECTING"
    /\ IF sp.attached
       THEN /\ sp' = handleOpen([sp EXCEPT !.socket = "OPEN"])
            /\ events' = <<SpEvent("connect", EmptyPayload)>>
            /\ spHist' = [spHist EXCEPT !.closes = 0, !.scheduled = 0, !.opened = TRUE]
       ELSE /\ sp' = [sp EXCEPT !.socket = "OPEN"]
            /\ events' = <<>>
            /\ UNCHANGED spHist
    /\ UNCHANGED <<srvCore, codec, inbox, outbox, link, props, clientPw, spInflight, spClosePending, spAuthFired>>

\* the WebSocket closes, after an `error` event (handleError does nothing) or not
SpTransportClose(err) ==
    /\ NoMicrotask
    /\ sp.socket \in {"CONNECTING", "OPEN", "CLOSING"}
    /\ err => sp.socket # "CLOSING"
    /\ IF sp.attached
       THEN /\ spClosePending < MaxQueue
            /\ sp.attemptCount <= props.maxAttempts + 1
            /\ sp' = handleClose(sp)
            /\ spClosePending' = spClosePending + 1
            /\ spHist' = [spHist EXCEPT
                             !.closes = IF @ < MaxCloses THEN @ + 1 ELSE @,
                             !.scheduled = IF sp'.attemptTimeout > 0 /\ @ < MaxCloses THEN @ + 1 ELSE @]
            /\ events' = (IF err THEN <<Event("socket", 0, "error", EmptyPayload)>> ELSE <<>>)
                         \o handleCloseEvents(sp)
       ELSE /\ sp' = [sp EXCEPT !.socket = "CLOSED"]
            /\ events' = <<>>
            /\ UNCHANGED <<spClosePending, spHist>>
    /\ Relink(outbox, sp', FALSE)
    /\ UNCHANGED <<srvCore, codec, inbox, props, clientPw, spInflight, spAuthFired>>

(***************************************************************************)
(* Sporket, src/src/Sporket.ts.                                            *)
(***************************************************************************)
\* a suspended call: the frame being handled (BlankMsg for a send() of the
\* application), the key passed to verifyMessage, the challenge passed on to
\* send(), and the signed message send() is about to transmit
SpTask(pc, msg, key, challenge, out) ==
    [pc |-> pc, msg |-> msg, key |-> key, challenge |-> challenge, out |-> out]

SpHandlers == {i \in 1..Len(spInflight) : spInflight[i].msg # BlankMsg}
SpAppSends == {i \in 1..Len(spInflight) : spInflight[i].msg = BlankMsg}

\* the guard of Sporket.send on the message type
sendAlwaysAllowed(o, type) == TRUE
sendAllowed(o, type) == type = "AUTH" \/ o.isAuthenticated

\* Sporket.send up to its await
SpSendOutcome(o, type) ==
    IF o.socket # "OPEN" THEN "false"
    ELSE IF ~sendAllowed(o, type) THEN "false"
    ELSE IF ~IsCryptoKey(o.cryptoKey) THEN "throw" ELSE "await"

\* the frame leaves through the current WebSocket: to the linked session, or
\* to a server outside the model
SpTransmit(m) ==
    IF link # 0
    THEN /\ Len(inbox[link]) < MaxQueue
         /\ inbox' = [inbox EXCEPT ![link] = Append(@, JsonFrame(m))]
    ELSE /\ inbox' = inbox
SpWire(m) ==
    IF link # 0 THEN <<>>
    ELSE <<[Event("wire", 0, m.type, parseMessage(m)) EXCEPT !.status = m.status]>>

\* the application calls send(payload) with the default type DATA
AppSend(payload) ==
    /\ NoMicrotask
    /\ Cardinality(SpAppSends) < MaxInflight
    /\ CASE SpSendOutcome(sp, "DATA") = "false" ->
              /\ events' = <<SpEvent("send returned false", payload)>>
              /\ UNCHANGED spInflight
         [] SpSendOutcome(sp, "DATA") = "throw" ->
              /\ events' = <<SpEvent("send rejected", payload)>>
              /\ UNCHANGED spInflight
         [] OTHER ->
              \E id \in MsgIds, now \in Nows :
                /\ spInflight' = Append(spInflight,
                       SpTask("sign", BlankMsg, NoKey, "",
                              signMessage(createMessage(id, now, payload, "DATA", OK), sp.cryptoKey)))
                /\ events' = <<>>
    /\ UNCHANGED <<srvCore, codec, inbox, outbox, link, props, clientPw, sp, spClosePending, spAuthFired, spHist>>

\* Sporket.handleMessage up to its first await, for frame f; `ob` is the
\* outbox the frame was taken from
SpOnMessage(f, ob) ==
    IF ~f.json
    THEN /\ events' = <<Unhandled(0, "SyntaxError")>>
         /\ UNCHANGED <<sp, spInflight>>
         /\ Relink(ob, sp, FALSE)
    ELSE LET m == f.msg
             payload == parseMessage(m)
         IN IF m.type = "AUTH" /\ Has(payload, "uuid")
            THEN IF sp.isAuthenticated \/ TypeOf(payload["uuid"]) # "string"
                 THEN /\ sp' = disconnect(sp)
                      /\ events' = disconnectEvents(sp)
                      /\ UNCHANGED spInflight
                      /\ Relink(ob, sp', FALSE)
                 ELSE /\ sp' = [sp EXCEPT !.cryptoKey = ImportKey(payload["uuid"][2])]
                      /\ spInflight' = Append(spInflight,
                             SpTask("authenticate", m, ImportKey(payload["uuid"][2]), "", BlankMsg))
                      /\ events' = <<>>
                      /\ Relink(ob, sp', FALSE)
            ELSE IF ~IsCryptoKey(sp.cryptoKey)
                 THEN /\ sp' = disconnect(sp)
                      /\ events' = disconnectEvents(sp)
                      /\ UNCHANGED spInflight
                      /\ Relink(ob, sp', FALSE)
                 ELSE /\ spInflight' = Append(spInflight, SpTask("verify", m, sp.cryptoKey, "", BlankMsg))
                      /\ events' = <<>>
                      /\ UNCHANGED sp
                      /\ Relink(ob, sp, FALSE)

\* the frames a server outside the model sends to the Sporket
SpPeerMessages ==
    {createMessage(id, now, p, "AUTH", OK) :
        id \in MsgIds, now \in Nows,
        p \in {WithKey(EmptyPayload, "uuid", Str(UuidOf(1))),
               WithKey(EmptyPayload, "success", Bool(TRUE)),
               EmptyPayload}}
    \cup {createMessage(id, now, ErrorPayload(MsgAuthFailed), "ERROR", UNAUTHORIZED) :
            id \in MsgIds, now \in Nows}
    \cup {createMessage(id, now, EmptyPayload, "ERROR", TEAPOT) : id \in MsgIds, now \in Nows}
    \cup {createMessage(id, now, WithKey(EmptyPayload, "hello", Str("world")), "DATA", OK) :
            id \in MsgIds, now \in Nows}
SpPeerFrames ==
    {TextFrame}
    \cup {JsonFrame(signMessage(m, ImportKey(UuidOf(1)))) : m \in SpPeerMessages}
    \cup {JsonFrame(m) : m \in {x \in SpPeerMessages : x.type \in {"AUTH", "DATA"} /\ x.payload # Encode(EmptyPayload)}}

\* a frame of a server outside the model arrives
SpPeerFrame(f) ==
    /\ NoMicrotask
    /\ link = 0
    /\ sp.socket = "OPEN"
    /\ sp.attached
    /\ Cardinality(SpHandlers) < MaxInflight
    /\ SpOnMessage(f, outbox)
    /\ spHist' = [spHist EXCEPT !.fresh = FALSE]
    /\ UNCHANGED <<srvCore, codec, inbox, props, clientPw, spClosePending, spAuthFired>>

\* a frame of the linked session arrives
SpRecv ==
    /\ NoMicrotask
    /\ link # 0
    /\ outbox[link] # <<>>
    /\ sp.socket = "OPEN"
    /\ sp.attached
    /\ Cardinality(SpHandlers) < MaxInflight
    /\ SpOnMessage(Head(outbox[link]), [outbox EXCEPT ![link] = Tail(@)])
    /\ spHist' = [spHist EXCEPT !.fresh = FALSE]
    /\ UNCHANGED <<srvCore, codec, inbox, props, clientPw, spClosePending, spAuthFired>>

\* verifyMessage resolves in #authenticate
SpResumeAuthenticate(i) ==
    /\ NoMicrotask
    /\ i \in 1..Len(spInflight)
    /\ spInflight[i].pc = "authenticate"
    /\ LET t == spInflight[i]
           rest == RemoveAt(spInflight, i)
           uuid == parseMessage(t.msg)["uuid"][2]
       IN IF verifyMessage(t.msg, t.key)
          THEN /\ sp' = [sp EXCEPT !.uuid = uuid]
               /\ spInflight' = Append(rest, SpTask("digest", t.msg, NoKey, Challenge(clientPw, uuid), BlankMsg))
               /\ events' = <<>>
          ELSE /\ sp' = disconnect(sp)
               /\ spInflight' = rest
               /\ events' = disconnectEvents(sp)
    /\ Relink(outbox, sp', FALSE)
    /\ UNCHANGED <<srvCore, codec, inbox, props, clientPw, spClosePending, spAuthFired, spHist>>

\* crypto.subtle.digest resolves in #authenticate, which calls send() and returns
SpResumeDigest(i) ==
    /\ NoMicrotask
    /\ i \in 1..Len(spInflight)
    /\ spInflight[i].pc = "digest"
    /\ LET t == spInflight[i]
           rest == RemoveAt(spInflight, i)
       IN CASE SpSendOutcome(sp, "AUTH") = "false" ->
                 /\ spInflight' = rest
                 /\ events' = <<>>
            [] SpSendOutcome(sp, "AUTH") = "throw" ->
                 /\ spInflight' = rest
                 /\ events' = <<Unhandled(0, "TypeError")>>
            [] OTHER ->
                 \E id \in MsgIds, now \in Nows :
                   /\ spInflight' = Append(rest,
                          SpTask("sign", t.msg, NoKey, "",
                                 signMessage(createMessage(id, now, WithKey(EmptyPayload, "challenge", Str(t.challenge)),
                                                           "AUTH", OK), sp.cryptoKey)))
                   /\ events' = <<>>
    /\ UNCHANGED <<srvCore, codec, inbox, outbox, link, props, clientPw, sp, spClosePending, spAuthFired, spHist>>

\* signMessage resolves in Sporket.send, which calls socket.send and returns true
SpResumeSign(i, throws) ==
    /\ NoMicrotask
    /\ i \in 1..Len(spInflight)
    /\ spInflight[i].pc = "sign"
    /\ LET t == spInflight[i]
           app == t.msg = BlankMsg
       IN /\ spInflight' = RemoveAt(spInflight, i)
          /\ IF sp.socket = "OPEN"
             THEN /\ ~throws
                  /\ SpTransmit(t.out)
                  /\ events' = SpWire(t.out) \o
                               (IF app THEN <<SpEvent("send returned true", parseMessage(t.out))>> ELSE <<>>)
             ELSE /\ sp.socket = "CONNECTING" => throws
                  /\ UNCHANGED inbox
                  /\ events' = IF throws
                               THEN (IF app THEN <<SpEvent("send rejected", parseMessage(t.out))>>
                                     ELSE <<Unhandled(0, "InvalidStateError")>>)
                               ELSE (IF app THEN <<SpEvent("send returned true", parseMessage(t.out))>> ELSE <<>>)
    /\ UNCHANGED <<srvCore, codec, outbox, link, props, clientPw, sp, spClosePending, spAuthFired, spHist>>

\* the test of handleMessage for the ERROR frame of a server shutting down
isAnyStatus(m) == TRUE
isShutdown(m) == m.status = TEAPOT

\* the test of handleMessage for the AUTH frame that ends the handshake
isSuccessAlways(payload) == TRUE
isSuccess(payload) == payload["success"] = Bool(TRUE)

\* verifyMessage resolves in handleMessage
SpResumeVerify(i) ==
    /\ NoMicrotask
    /\ i \in 1..Len(spInflight)
    /\ spInflight[i].pc = "verify"
    /\ LET t == spInflight[i]
           m == t.msg
           payload == parseMessage(m)
       IN /\ spInflight' = RemoveAt(spInflight, i)
          /\ IF ~verifyMessage(m, t.key)
             THEN /\ sp' = disconnect(sp)
                  /\ events' = disconnectEvents(sp)
                  /\ UNCHANGED spAuthFired
             ELSE IF m.type = "AUTH"
             THEN IF isSuccess(payload)
                  THEN /\ sp' = [sp EXCEPT !.isAuthenticated = TRUE]
                       /\ events' = <<SpEvent("authenticated", EmptyPayload)>>
                       /\ spAuthFired' = TRUE
                  ELSE /\ sp' = disconnect(sp)
                       /\ events' = disconnectEvents(sp)
                       /\ UNCHANGED spAuthFired
             ELSE IF m.type = "ERROR"
             THEN IF isShutdown(m)
                  THEN /\ sp' = disconnect(sp)
                       /\ events' = disconnectEvents(sp)
                       /\ UNCHANGED spAuthFired
                  ELSE /\ events' = <<>>
                       /\ UNCHANGED <<sp, spAuthFired>>
             ELSE /\ events' = <<SpEvent("message", payload)>>
                  /\ UNCHANGED <<sp, spAuthFired>>
    /\ Relink(outbox, sp', FALSE)
    /\ UNCHANGED <<srvCore, codec, inbox, props, clientPw, spClosePending, spHist>>

SporketStep ==
    \/ AppConnect
    \/ AppDisconnect
    \/ AppSend(WithKey(EmptyPayload, "hello", Str("world")))
    \/ ReconnectTimer
    \/ CloseEventTimer
    \/ SpTransportOpen
    \/ \E err \in BOOLEAN : SpTransportClose(err)
    \/ \E f \in SpPeerFrames : SpPeerFrame(f)
    \/ \E i \in 1..(2 * MaxInflight) : SpResumeAuthenticate(i)
    \/ \E i \in 1..(2 * MaxInflight) : SpResumeDigest(i)
    \/ \E i \in 1..(2 * MaxInflight) : SpResumeVerify(i)
    \/ \E i \in 1..(2 * MaxInflight) : \E throws \in BOOLEAN : SpResumeSign(i, throws)

MaxAttemptsCfg == 2   \* the positive maxAttempts the Sporket is constructed with

\* a Sporket after its constructor, facing a server outside the model
InitSporket ==
    /\ ServerInit
    /\ props \in {[DefaultProps EXCEPT !.autoConnect = a, !.maxAttempts = n] :
                    a \in BOOLEAN, n \in {0, MaxAttemptsCfg}}
    /\ clientPw \in Passwords
    /\ sp = IF props.autoConnect THEN connect(NewSocket) ELSE NewSocket
    /\ spInflight = <<>>
    /\ spClosePending = 0
    /\ spAuthFired = FALSE
    /\ spHist = [NewHist EXCEPT !.fresh = props.autoConnect]
    /\ codec = NoCodec

SpecSporket == InitSporket /\ [][SporketStep]_vars

(***************************************************************************)
(* The Sporket connected to the Server.                                    *)
(***************************************************************************)
\* the upgrade request of the Sporket's connecting WebSocket reaches the server
UpgradeSporket ==
    /\ NoMicrotask
    /\ abort = "active"
    /\ sp.socket = "CONNECTING"
    /\ link = 0
    /\ FreeSessions # {}
    /\ handleSocket(Min(FreeSessions))
    /\ link' = Min(FreeSessions)
    /\ UNCHANGED <<spVars, srvHist>>

\* the Sporket's WebSocket opens once the server has accepted the upgrade
SpOpenAccepted ==
    /\ link # 0
    /\ SpTransportOpen

Next ==
    \/ (Listen /\ UNCHANGED <<spVars, srvHist>>)
    \/ UpgradeSporket
    \/ (\E s \in Sessions : KeyImported(s) /\ UNCHANGED <<spVars, srvHist>>)
    \/ (\E s \in Sessions : SocketOpen(s) /\ UNCHANGED <<spVars, srvHist>>)
    \/ (\E s \in Sessions : TransportClose(s) /\ UNCHANGED spVars)
    \/ (\E s \in Sessions : RecvFrame(s) /\ UNCHANGED <<spVars, srvHist>>)
    \/ (\E s \in Sessions : \E i \in 1..(MaxInflight + 2) : ResumeVerify(s, i) /\ UNCHANGED <<spVars, srvHist>>)
    \/ (\E s \in Sessions : \E i \in 1..(MaxInflight + 2) : ResumeDigest(s, i) /\ UNCHANGED spVars)
    \/ (\E s \in Sessions : \E i \in 1..(MaxInflight + 2) : \E throws \in BOOLEAN : ResumeSign(s, i, throws) /\ UNCHANGED spVars)
    \/ AppSend(WithKey(EmptyPayload, "hello", Str("world")))
    \/ ReconnectTimer
    \/ CloseEventTimer
    \/ SpOpenAccepted
    \/ \E err \in BOOLEAN : SpTransportClose(err)
    \/ SpRecv
    \/ \E i \in 1..(2 * MaxInflight) : SpResumeAuthenticate(i)
    \/ \E i \in 1..(2 * MaxInflight) : SpResumeDigest(i)
    \/ \E i \in 1..(2 * MaxInflight) : SpResumeVerify(i)
    \/ \E i \in 1..(2 * MaxInflight) : \E throws \in BOOLEAN : SpResumeSign(i, throws)

\* a Sporket constructed with autoConnect next to a server that is not
\* listening yet
InitConnected ==
    /\ ServerInit
    /\ props = [DefaultProps EXCEPT !.maxAttempts = MaxAttemptsCfg]
    /\ clientPw \in Passwords
    /\ sp = connect(NewSocket)
    /\ spInflight = <<>>
    /\ spClosePending = 0
    /\ spAuthFired = FALSE
    /\ spHist = [NewHist EXCEPT !.fresh = TRUE]
    /\ codec = NoCodec

Spec == InitConnected /\ [][Next]_vars

(***************************************************************************)
(* signMessage and verifyMessage on their own, src/src/message.ts.         *)
(***************************************************************************)
\* the fields of the messages handed to the codec: any strings and numbers a
\* peer can put in the JSON of a frame
CodecIds == {"id", "id1"}
CodecNows == {1, 11}
CodecPayloads == {Encode(EmptyPayload), Encode(WithKey(EmptyPayload, "hello", Str("world")))}
CodecKeys == {ImportKey(u) : u \in Uuids}
CodecTypes == {"AUTH", "DATA"}
CodecStatuses == {OK, UNAUTHORIZED}

\* signMessage(codec.msg, codec.key)
CodecSign ==
    /\ codec.stage = "input"
    /\ codec' = [codec EXCEPT !.stage = "signed",
                              !.msg = signMessage(codec.msg, codec.key),
                              !.signed = signMessage(codec.msg, codec.key)]

\* a peer changes fields of the signed message and leaves the signature
CodecMutate(id, now, payload) ==
    /\ codec.stage = "signed"
    /\ <<id, now, payload>> # <<codec.signed.id, codec.signed.now, codec.signed.payload>>
    /\ codec' = [codec EXCEPT !.stage = "mutated",
                              !.verified = "none",
                              !.retyped = "none",
                              !.msg = [codec.signed EXCEPT !.id = id, !.now = now, !.payload = payload]]

\* verifyMessage(codec.msg, codec.key)
CodecVerify ==
    /\ codec.stage \in {"signed", "mutated"}
    /\ codec.verified = "none"
    /\ codec' = [codec EXCEPT !.verified = IF verifyMessage(codec.msg, codec.key) THEN "true" ELSE "false"]

\* a peer changes type or status of a message verifyMessage has judged and
\* leaves id, now, payload and signature; `retyped` keeps the earlier verdict
CodecRetype(type, status) ==
    /\ codec.stage \in {"signed", "mutated"}
    /\ codec.verified # "none"
    /\ codec.retyped = "none"
    /\ <<type, status>> # <<codec.msg.type, codec.msg.status>>
    /\ codec' = [codec EXCEPT !.retyped = codec.verified,
                              !.verified = "none",
                              !.msg = [codec.msg EXCEPT !.type = type, !.status = status]]

CodecStep ==
    \/ (CodecSign /\ UNCHANGED <<serverVars, link, props, clientPw, sp, spInflight, spClosePending, spAuthFired, spHist, events>>)
    \/ (\E id \in CodecIds, now \in CodecNows, payload \in CodecPayloads :
          CodecMutate(id, now, payload)
          /\ UNCHANGED <<serverVars, link, props, clientPw, sp, spInflight, spClosePending, spAuthFired, spHist, events>>)
    \/ (CodecVerify /\ UNCHANGED <<serverVars, link, props, clientPw, sp, spInflight, spClosePending, spAuthFired, spHist, events>>)
    \/ (\E type \in CodecTypes, status \in CodecStatuses :
          CodecRetype(type, status)
          /\ UNCHANGED <<serverVars, link, props, clientPw, sp, spInflight, spClosePending, spAuthFired, spHist, events>>)

\* any message and any key
InitCodec ==
    /\ ServerInit
    /\ props = [DefaultProps EXCEPT !.autoConnect = FALSE]
    /\ clientPw = ServerPassword
    /\ sp = NewSocket
    /\ spInflight = <<>>
    /\ spClosePending = 0
    /\ spAuthFired = FALSE
    /\ spHist = NewHist
    /\ codec \in {[NoCodec EXCEPT !.stage = "input", !.key = k,
                                   !.msg = [id |-> id, now |-> now, type |-> type, status |-> OK,
                                            payload |-> payload, signature |-> NoSignature]] :
                     k \in CodecKeys, id \in CodecIds, now \in CodecNows,
                     payload \in CodecPayloads, type \in CodecTypes}

SpecCodec == InitCodec /\ [][CodecStep]_vars

(***************************************************************************)
(* Properties.                                                             *)
(***************************************************************************)
Tasks(s) == 1..Len(inflight[s])
CountPc(seq, pc) == Cardinality({i \in 1..Len(seq) : seq[i].pc = pc})

\* the step resumes the suspended call i of session s, which was at `pc`
Resumes(s, i, pc) ==
    /\ i \in Tasks(s)
    /\ inflight[s][i].pc = pc
    /\ CountPc(inflight'[s], pc) < CountPc(inflight[s], pc)
    /\ SubSeq(inflight'[s], 1, Len(inflight[s]) - 1) = RemoveAt(inflight[s], i)

\* what the step appends to the suspended calls of session s
Started(s) == SubSeq(inflight'[s], Len(inflight[s]), Len(inflight'[s]))

\* the step resumes the suspended call i of the Sporket, which was at `pc`
SpResumes(i, pc) ==
    /\ i \in 1..Len(spInflight)
    /\ spInflight[i].pc = pc
    /\ CountPc(spInflight', pc) < CountPc(spInflight, pc)
    /\ SubSeq(spInflight', 1, Len(spInflight) - 1) = RemoveAt(spInflight, i)

Dispatched(evs, src, s, name) ==
    {i \in 1..Len(evs) : evs[i].src = src /\ evs[i].who = s /\ evs[i].name = name}

\* the signature of m is the HMAC of its canonical bytes under the key of uuid
Genuine(m, uuid) == m.signature = Hmac(ImportKey(uuid), Canonical(m))

IsReply(t, s, type, status, payload) ==
    /\ t.pc = "sign"
    /\ t.out.type = type
    /\ t.out.status = status
    /\ parseMessage(t.out) = payload
    /\ Genuine(t.out, UuidOf(s))

\* C1: isAuthenticated of a session turns true only in the step that resumes
\* the handler of a frame that verifies under the session key, has type AUTH
\* and whose decoded payload.challenge is the string the server computes from
\* its password and the session uuid.
C1_AuthenticatedOnlyByChallenge ==
    [][\A s \in Sessions :
         (~isAuthenticated[s] /\ isAuthenticated'[s]) =>
            \E i \in Tasks(s) :
                /\ Resumes(s, i, "digest")
                /\ inflight[s][i].msg.type = "AUTH"
                /\ Genuine(inflight[s][i].msg, UuidOf(s))
                /\ parseMessage(inflight[s][i].msg)["challenge"]
                       = Str(Challenge(ServerPassword, UuidOf(s)))]_vars

C1_Witness == \E s \in Sessions : isAuthenticated[s] /\ sockState[s] = "OPEN"

\* C2: a ServerClient dispatches `message` only in a step in which its
\* isAuthenticated flag is true, and only for a frame that verified under the
\* session key.
C2_MessageOnlyWhenAuthenticated ==
    [][\A s \in Sessions :
         Dispatched(events', "client", s, "message") # {} =>
            /\ isAuthenticated[s] /\ isAuthenticated'[s]
            /\ \E i \in Tasks(s) :
                  /\ Resumes(s, i, "verify")
                  /\ Genuine(inflight[s][i].msg, UuidOf(s))]_vars

C2_Witness ==
    \E s \in Sessions : Dispatched(events, "client", s, "message") # {} /\ isAuthenticated[s]

\* the suspended send() calls of the application
AppSigns(seq) == {i \in 1..Len(seq) : seq[i].pc = "sign" /\ seq[i].msg = BlankMsg}
\* frames other than AUTH the step transmits, and send() calls of the
\* application it lets return true
DataOut(evs) ==
    {k \in 1..Len(evs) :
        \/ (evs[k].src = "wire" /\ evs[k].who = 0 /\ evs[k].name # "AUTH")
        \/ (evs[k].src = "sporket" /\ evs[k].name = "send returned true")}

HoldsError(i, status) ==
    /\ i \in 1..Len(spInflight)
    /\ spInflight[i].pc = "verify"
    /\ spInflight[i].msg.type = "ERROR"
    /\ spInflight[i].msg.status = status
    /\ spInflight[i].msg.signature = Hmac(spInflight[i].key, Canonical(spInflight[i].msg))

SpDisconnected(evs) == {k \in 1..Len(evs) : evs[k].src = "sporket" /\ evs[k].name = "disconnect"}

\* C4 as claimed: with a wrong password, the Sporket disconnects when it
\* handles the ERROR/401 reply of the server.
C4_Original ==
    [][clientPw # ServerPassword =>
         \A i \in 1..Len(spInflight) :
            (SpResumes(i, "verify") /\ HoldsError(i, UNAUTHORIZED)) =>
               /\ sp'.socket \notin {"CONNECTING", "OPEN"}
               /\ SpDisconnected(events') # {}]_vars

\* C4 as amended: with a wrong password neither end is ever authenticated;
\* the connected server answers the challenge with ERROR/401 "authentication
\* failed"; the Sporket swallows that reply: it dispatches nothing, stays
\* connected, and the registry keeps the entry of the session.
C4_WrongPasswordSwallowed ==
    /\ [](clientPw # ServerPassword =>
            /\ ~sp.isAuthenticated
            /\ \A s \in Sessions : ~isAuthenticated[s])
    /\ [][clientPw # ServerPassword =>
            /\ \A s \in Sessions : \A i \in Tasks(s) :
                  (Resumes(s, i, "digest") /\ isConnected(s)) =>
                     /\ Len(Started(s)) = 1
                     /\ IsReply(Started(s)[1], s, "ERROR", UNAUTHORIZED, ErrorPayload(MsgAuthFailed))
            /\ \A i \in 1..Len(spInflight) :
                  (SpResumes(i, "verify") /\ HoldsError(i, UNAUTHORIZED)) =>
                     /\ events' = <<>>
                     /\ UNCHANGED <<sp, link, handles, sockState, listeners>>]_vars

C4_Witness ==
    /\ clientPw # ServerPassword
    /\ link # 0
    /\ InRegistry(link)
    /\ sp.socket = "OPEN"
    /\ sp.uuid = UuidOf(link)
    /\ \E i \in 1..Len(spInflight) :
          /\ HoldsError(i, UNAUTHORIZED)
          /\ parseMessage(spInflight[i].msg) = ErrorPayload(MsgAuthFailed)

\* the step in which an authenticated Sporket with autoConnect handles a
\* verified ERROR/418
TeapotStep ==
    /\ props.autoConnect
    /\ sp.isAuthenticated
    /\ \E i \in 1..Len(spInflight) : SpResumes(i, "verify") /\ HoldsError(i, TEAPOT)

\* C5 as claimed: on a verified ERROR/418 the Sporket disconnects and a
\* reconnect is still to come: its timer is pending, or the close handler is
\* still on the socket to schedule it.
C5_Original ==
    [][TeapotStep =>
          /\ sp'.socket \notin {"CONNECTING", "OPEN"}
          /\ (sp'.attemptTimeout > 0 \/ sp'.attached)]_vars

\* C5 as amended: on a verified ERROR/418 the Sporket disconnects, and the
\* disconnect suppresses reconnection: the handlers are off the socket and no
\* reconnect timer is pending, in that step and as long as the handlers are
\* off (until the application calls connect()).
C5_TeapotSuppressesReconnect ==
    /\ [](~sp.attached => sp.attemptTimeout = 0)
    /\ [][TeapotStep =>
            /\ sp'.socket \in {"CLOSING", "CLOSED"}
            /\ ~sp'.attached
            /\ sp'.attemptTimeout = 0
            /\ ~sp'.isAuthenticated
            /\ SpDisconnected(events') # {}]_vars

C5_Witness ==
    /\ props.autoConnect
    /\ sp.isAuthenticated
    /\ sp.socket = "OPEN"
    /\ \E i \in 1..Len(spInflight) : HoldsError(i, TEAPOT)

\* the step runs Socket.handleClose
HandleCloseStep == spClosePending' = spClosePending + 1

\* C11 as claimed: with maxAttempts = M > 0 and autoConnect, the M-th
\* consecutive close schedules no connect() and leaves the Socket disconnected.
C11_Original ==
    [][(/\ HandleCloseStep
        /\ props.autoConnect
        /\ props.maxAttempts > 0
        /\ spHist'.closes = props.maxAttempts) =>
           /\ sp'.attemptTimeout = 0
           /\ ~sp'.attached]_vars

\* C11 as amended: with maxAttempts = M > 0 and autoConnect, each of the
\* first M consecutive closes schedules a reconnect; the close after them
\* (the M+1-th) schedules none, disconnects and dispatches `disconnect`; and
\* as long as no connection opens no reconnect is pending any more.
C11_AttemptCap ==
    /\ []((props.maxAttempts > 0 /\ spHist.closes > props.maxAttempts) => sp.attemptTimeout = 0)
    /\ [][(HandleCloseStep /\ props.autoConnect /\ props.maxAttempts > 0) =>
             IF spHist'.closes <= props.maxAttempts
             THEN /\ sp'.attemptTimeout > 0
                  /\ sp'.attached
             ELSE /\ sp'.attemptTimeout = 0
                  /\ ~sp'.attached
                  /\ SpDisconnected(events') # {}]_vars

C11_Witness ==
    /\ props.autoConnect
    /\ props.maxAttempts > 0
    /\ spHist.closes = props.maxAttempts + 1
    /\ ~spHist.opened
    /\ ~sp.attached
    /\ SpDisconnected(events) # {}

\* C12: for maxAttempts > 0, handleClose has scheduled at most maxAttempts
\* reconnects since the last open (or since construction).
C12_ReconnectsBounded == props.maxAttempts > 0 => spHist.scheduled <= props.maxAttempts

C12_Witness ==
    /\ props.maxAttempts > 0
    /\ spHist.scheduled = props.maxAttempts
    /\ spHist.closes > props.maxAttempts

\* C13: the backoff waitTime, and the delay of a pending reconnect, lie in
\* [minWaitTime, maxWaitTime] in every state.
C13_WaitTimeInRange ==
    /\ props.minWaitTime <= sp.waitTime /\ sp.waitTime <= props.maxWaitTime
    /\ sp.attemptTimeout > 0 =>
          (props.minWaitTime <= sp.attemptTimeout /\ sp.attemptTimeout <= props.maxWaitTime)

\* min(minWaitTime + n * waitExtend, maxWaitTime)
Backoff(n) == Min({props.minWaitTime + n * props.waitExtend, props.maxWaitTime})

\* C14: after an open and N consecutive closes that each scheduled a
\* reconnect, waitTime is min(minWaitTime + N * waitExtend, maxWaitTime), and
\* the N-th reconnect is pending with delay
\* min(minWaitTime + (N - 1) * waitExtend, maxWaitTime).
C14_BackoffGrowth ==
    (spHist.opened /\ spHist.scheduled = spHist.closes /\ spHist.closes < MaxCloses) =>
        /\ sp.waitTime = Backoff(spHist.closes)
        /\ sp.attemptTimeout > 0 => sp.attemptTimeout = Backoff(spHist.closes - 1)

C14_Witness ==
    /\ spHist.opened
    /\ spHist.scheduled = spHist.closes
    /\ spHist.closes = MaxCloses - 1
    /\ sp.attemptTimeout = props.maxWaitTime
    /\ sp.waitTime = props.maxWaitTime
    /\ props.minWaitTime + spHist.closes * props.waitExtend > props.maxWaitTime

\* C6: when the verification of a frame fails, the session sends ERROR/400
\* (if it is still connected), and the step dispatches no event, does not
\* disconnect and leaves isAuthenticated and the registry as they are; the
\* reply is transmitted when its signature is ready and the socket open.
C6_InvalidSignatureReply ==
    [][\A s \in Sessions :
         /\ \A i \in Tasks(s) :
              (Resumes(s, i, "verify") /\ ~Genuine(inflight[s][i].msg, UuidOf(s))) =>
                 /\ events' = <<>>
                 /\ UNCHANGED <<sockState, aborted, isAuthenticated, handles, listeners>>
                 /\ isConnected(s) =>
                       /\ Len(Started(s)) = 1
                       /\ IsReply(Started(s)[1], s, "ERROR", BADREQUEST, ErrorPayload(MsgBadSignature))
                 /\ ~isConnected(s) => Started(s) = <<>>
         /\ \A i \in Tasks(s) :
              (/\ Resumes(s, i, "sign")
               /\ IsReply(inflight[s][i], s, "ERROR", BADREQUEST, ErrorPayload(MsgBadSignature))
               /\ isConnected(s)) =>
                 /\ \E k \in Dispatched(events', "wire", s, "ERROR") :
                        /\ events'[k].status = BADREQUEST
                        /\ events'[k].detail = ErrorPayload(MsgBadSignature)
                 /\ UNCHANGED <<sockState, aborted, isAuthenticated, handles, listeners>>]_vars

C6_Witness ==
    \E s \in Sessions :
        /\ sockState[s] = "OPEN" /\ ~aborted[s] /\ InRegistry(s)
        /\ \E k \in Dispatched(events, "wire", s, "ERROR") : events[k].status = BADREQUEST

\* C7: when a validly signed frame whose type is not AUTH has been verified,
\* an unauthenticated session replies ERROR/401 (if connected) and dispatches
\* no `message`; an authenticated one dispatches exactly one `message` with
\* the decoded payload and sends no reply.
C7_DataFrame ==
    [][\A s \in Sessions : \A i \in Tasks(s) :
         (/\ Resumes(s, i, "verify")
          /\ Genuine(inflight[s][i].msg, UuidOf(s))
          /\ inflight[s][i].msg.type # "AUTH") =>
            IF isAuthenticated[s]
            THEN /\ Cardinality(Dispatched(events', "client", s, "message")) = 1
                 /\ \A k \in Dispatched(events', "client", s, "message") :
                        events'[k].detail = parseMessage(inflight[s][i].msg)
                 /\ Started(s) = <<>>
                 /\ Dispatched(events', "wire", s, "ERROR") = {}
                 /\ UNCHANGED outbox
            ELSE /\ Dispatched(events', "client", s, "message") = {}
                 /\ Dispatched(events', "server", s, "message") = {}
                 /\ isConnected(s) =>
                       /\ Len(Started(s)) = 1
                       /\ IsReply(Started(s)[1], s, "ERROR", UNAUTHORIZED, ErrorPayload(MsgRespond))]_vars

C7_Witness ==
    \E s \in Sessions :
        /\ ~isAuthenticated[s]
        /\ \E k \in Dispatched(events, "wire", s, "ERROR") :
               events[k].status = UNAUTHORIZED /\ events[k].detail = ErrorPayload(MsgRespond)

\* C8: no frame an endpoint receives leaves the exception of a failed parse
\* unhandled.
C8_ProtocolErrorsCaughtLocally ==
    \A k \in 1..Len(events) :
        events[k].name = "unhandledrejection" =>
            events[k].detail # WithKey(EmptyPayload, "message", Str("SyntaxError"))

\* C9: a listener of `clientdisconnect {uuid}` finds the entry of that uuid
\* removed from the registry, and after the step the server has none of its
\* four listeners on the session; every key of the registry is the uuid of
\* the session it maps to.
C9_RemovedBeforeClientDisconnect ==
    /\ \A k \in 1..Len(events) :
          (events[k].src = "server" /\ events[k].name = "clientdisconnect") =>
             /\ ~events[k].registered
             /\ events[k].detail = WithKey(EmptyPayload, "uuid", Str(UuidOf(events[k].who)))
             /\ UuidOf(events[k].who) \notin DOMAIN handles
             /\ listeners[events[k].who] = {}
    /\ \A u \in DOMAIN handles : UuidOf(handles[u]) = u

C9_Witness ==
    /\ \E k \in 1..Len(events) : events[k].src = "server" /\ events[k].name = "clientdisconnect"
    /\ DOMAIN handles # {}

\* C10 as claimed: the registry has as many entries as there are accepted
\* sessions whose transport is not closed.
C10_Original ==
    Cardinality(DOMAIN handles) = Cardinality({s \in Sessions : sockState[s] \notin {"NONE", "CLOSED"}})

\* C10 as amended: the registry holds exactly the accepted sessions on which
\* disconnect() has not run, and the transport of each of them is connecting
\* or open.
C10_RegistryConsistency ==
    /\ Registered = {s \in Sessions : sockState[s] # "NONE" /\ ~aborted[s]}
    /\ Cardinality(DOMAIN handles) = Cardinality(Registered)
    /\ \A s \in Registered : sockState[s] \in {"CONNECTING", "OPEN"}

C10_Witness ==
    \E s \in Sessions : sockState[s] = "CLOSING" /\ ~InRegistry(s) /\ DOMAIN handles # {}

\* the steps in which the reconnect timer of handleClose calls connect()
TimerConnects(es) == {i \in 1..Len(es) : es[i].src = "timer" /\ es[i].name = "connect"}

(***************************************************************************)
(* C15: from the moment connect() opens a new WebSocket until the first   *)
(* frame of that connection is handled, uuid is the empty string, the key  *)
(* is null and isAuthenticated is false.                                   *)
(***************************************************************************)
C15_IdentityBlankUntilHandshake ==
    spHist.fresh => sp.uuid = "" /\ sp.cryptoKey = NoKey /\ ~sp.isAuthenticated

(***************************************************************************)
(* C16: after the application calls disconnect(), until it calls          *)
(* connect(), no reconnect timer is pending and the reconnect timer never  *)
(* calls connect(); this includes a disconnect() that found a timer        *)
(* pending.                                                                *)
(***************************************************************************)
C16_NoReconnectAfterDisconnect ==
    /\ [](spHist.stopped => sp.attemptTimeout = 0)
    /\ [][spHist.stopped => TimerConnects(events') = {}]_vars

C16_Witness ==
    spHist.stopped /\ spHist.cancelled /\ sp.attemptTimeout = 0 /\ sp.socket = "CLOSED" /\ props.autoConnect

(***************************************************************************)
(* C17: once the application has called disconnect() on an open socket, a  *)
(* `close` event of the Socket is on its way until it is dispatched: the   *)
(* timer of handleClose is pending, or the `close` listener is on a        *)
(* WebSocket that has yet to close.                                        *)
(***************************************************************************)
C17_CloseAfterDisconnect ==
    spHist.owed => spClosePending > 0 \/ (sp.attached /\ sp.socket # "CLOSED")

\* the frames of the given type and status the step transmits to session s
Sent(s, type, status) ==
    {i \in 1..Len(events') : /\ events'[i].src = "wire"
                             /\ events'[i].who = s
                             /\ events'[i].name = type
                             /\ events'[i].status = status}

(***************************************************************************)
(* C18: Server.close() transmits ERROR/418 only in its first loop, before  *)
(* its disconnect() calls; when that loop is over every session that was   *)
(* authenticated when close() was called has been sent ERROR/418 unless it *)
(* has left the registry by itself; close() then calls disconnect() on     *)
(* every registered session in one step, and the acceptor is aborted only  *)
(* by the step after that.                                                 *)
(***************************************************************************)
C18_ShutdownOrder ==
    /\ [](closePc = "wait1000" =>
            \A s \in srvHist.closeSnap : s \in srvHist.closeSent \/ ~InRegistry(s))
    /\ [][\A s \in Sessions : Sent(s, "ERROR", TEAPOT) # {} => closePc = "await"]_vars
    /\ [][(closePc = "wait1000" /\ closePc' = "wait500") =>
              /\ \A s \in Registered : aborted'[s] /\ sockState'[s] # "OPEN" /\ ~InRegistry(s)'
              /\ abort' = abort]_vars
    /\ [][abort' # abort /\ abort' = "aborted" => closePc = "wait500"]_vars

C18_Witness ==
    /\ closePc = "wait500"
    /\ abort = "active"
    /\ srvHist.closeSnap = Sessions
    /\ srvHist.closeSent = Sessions
    /\ \A s \in Sessions : aborted[s] /\ sockState[s] = "CLOSING"

(***************************************************************************)
(* C19: a call of Server.send(payload) transmits a copy only to sessions   *)
(* that were authenticated when it was called, and when it has returned    *)
(* each of those sessions still in the registry has been sent one copy.    *)
(***************************************************************************)
C19_BroadcastSnapshot ==
    /\ \A s \in Sessions : srvHist.bcSent[s] > 0 => s \in srvHist.bcSnap /\ srvHist.bcSent[s] = 1
    /\ srvHist.bcState = "returned" =>
          \A s \in srvHist.bcSnap : InRegistry(s) => srvHist.bcSent[s] = 1

(***************************************************************************)
(* C20: a step in which Server.sendTo returns true for a session transmits *)
(* a DATA/200 envelope to it, a step that transmits the envelope of a      *)
(* sendTo returns true, and sendTo returns false, transmitting nothing,    *)
(* exactly when the uuid is not in the registry or its session is not      *)
(* authenticated.                                                          *)
(***************************************************************************)
SendToResults(es, result) == {i \in 1..Len(es) : es[i].src = "server" /\ es[i].name = result}

C20_SendToResult ==
    /\ [][\A i \in SendToResults(events', "sendTo returned true") :
              Sent(events'[i].who, "DATA", OK) # {}]_vars
    /\ [][\A i \in SendToResults(events', "sendTo returned false") :
              /\ \A s \in Sessions : Sent(s, "DATA", OK) = {}
              /\ \A s \in Sessions : events'[i].detail["uuid"] = Str(UuidOf(s)) =>
                                        ~InRegistry(s) \/ ~isAuthenticated[s]]_vars

\* the replies transmitted to session s and the `message` events it dispatches
\* in the step
Outcomes(s) ==
    {k \in 1..Len(events') : /\ events'[k].who = s
                             /\ \/ events'[k].src = "wire"
                                \/ (events'[k].src = "client" /\ events'[k].name = "message")}

(***************************************************************************)
(* C21: the reply or `message` event a frame causes never appears while    *)
(* the handler of a frame of the same session that arrived before it is    *)
(* still suspended.                                                        *)
(***************************************************************************)
C21_ArrivalOrder ==
    [][\A s \in Sessions : \A i \in Tasks(s) :
          (/\ srvHist.later # BlankMsg
           /\ inflight[s][i].msg = srvHist.later
           /\ \E pc \in {"verify", "digest", "sign"} : Resumes(s, i, pc)
           /\ Outcomes(s) # {})
          => \A j \in Tasks(s) \ {i} : inflight[s][j].msg \in {BlankMsg, srvHist.later}]_vars

(***************************************************************************)
(* C22: every `message` event of the Server is dispatched in the step that *)
(* resumes the handler of a frame signed under the key of one session; its *)
(* detail has that session's uuid under `uuid` and the frame's payload     *)
(* under every other key, whatever the payload has under `uuid`.           *)
(***************************************************************************)
C22_MessageAttributed ==
    [][\A k \in 1..Len(events') :
          (events'[k].src = "server" /\ events'[k].name = "message") =>
             \E s \in Sessions : \E i \in Tasks(s) :
                /\ Resumes(s, i, "verify")
                /\ Genuine(inflight[s][i].msg, UuidOf(s))
                /\ events'[k].detail["uuid"] = Str(UuidOf(s))
                /\ \A key \in PayloadKeys \ {"uuid"} :
                      events'[k].detail[key] = parseMessage(inflight[s][i].msg)[key]]_vars

C22_Witness ==
    \E s \in Sessions : \E j, k \in 1..Len(events) :
       /\ events[j].src = "client" /\ events[j].who = s /\ events[j].name = "message"
       /\ Has(events[j].detail, "uuid") /\ events[j].detail["uuid"] # Str(UuidOf(s))
       /\ events[k].src = "server" /\ events[k].who = s /\ events[k].name = "message"
       /\ events[k].detail = WithKey(events[j].detail, "uuid", Str(UuidOf(s)))

(***************************************************************************)
(* C23: verifyMessage returns true for a message signMessage has signed,   *)
(* under the same key, and false once id, now or payload of the signed     *)
(* message have been changed with the signature left as it is.             *)
(***************************************************************************)
C23_SignVerifyRoundTrip ==
    /\ (codec.stage = "signed" /\ codec.verified # "none") => codec.verified = "true"
    /\ (codec.stage = "mutated" /\ codec.verified # "none") => codec.verified = "false"

(***************************************************************************)
(* C24: the AUTH message with payload {uuid: U} a session signs has the    *)
(* session uuid U as its id, and every other message it signs has an id    *)
(* of crypto.randomUUID().                                                 *)
(***************************************************************************)
C24_FirstAuthIdIsUuid ==
    \A s \in Sessions : \A i \in Tasks(s) :
       inflight[s][i].pc = "sign" =>
          IF inflight[s][i].out.type = "AUTH" /\ Has(parseMessage(inflight[s][i].out), "uuid")
          THEN inflight[s][i].out.id = UuidOf(s)
          ELSE inflight[s][i].out.id \in MsgIds

\* listen() throws in the step
ListenThrows(evs) == {k \in 1..Len(evs) : evs[k].src = "server" /\ evs[k].name = "throw"}

(***************************************************************************)
(* C25: listen() throws only on a Server that has a cancellation           *)
(* controller, and the step in which it throws changes no field of the     *)
(* Server or of its sessions; the controller becomes active only from      *)
(* having been undefined, and listen() on a listening Server always        *)
(* throws.                                                                 *)
(***************************************************************************)
C25_ListenTwiceThrows ==
    /\ [][ListenThrows(events') # {} =>
             /\ abort # "undefined"
             /\ abort' = abort /\ handles' = handles /\ listeners' = listeners
             /\ sockState' = sockState /\ inflight' = inflight
             /\ closePc' = closePc /\ isAuthenticated' = isAuthenticated]_vars
    /\ [][abort' # abort /\ abort' = "active" => abort = "undefined"]_vars
    /\ [][(abort = "active" /\ Listen) => ListenThrows(events') # {}]_vars

C25_Witness ==
    ListenThrows(events) # {} /\ abort = "active" /\ Registered # {}

C29_NoEffectAfterDisconnect ==
    /\ [](\A s \in Sessions : aborted[s] => ~isAuthenticated[s])
    /\ [][\A s \in Sessions : aborted[s] =>
             /\ Dispatched(events', "client", s, "authenticated") = {}
             /\ Dispatched(events', "client", s, "message") = {}]_vars

\* the events of the given name the Sporket dispatches
SpDispatched(evs, name) == {k \in 1..Len(evs) : evs[k].src = "sporket" /\ evs[k].name = name}

\* the frame of the Sporket's suspended handler i verifies under the key that
\* was current when it arrived
SpVerifies(i) ==
    /\ IsCryptoKey(spInflight[i].key)
    /\ spInflight[i].msg.signature = Hmac(spInflight[i].key, Canonical(spInflight[i].msg))

C28_MessageOnlyWhileAuthenticated ==
    [][SpDispatched(events', "message") # {} => sp.isAuthenticated]_vars

(***************************************************************************)
(* C30: the Server dispatches `clientconnect` for a session only if it has *)
(* not dispatched it for that session before.                              *)
(***************************************************************************)
C30_ClientConnectOnce ==
    [][\A s \in ClientConnects(events') : s \notin srvHist.connected]_vars

(***************************************************************************)
(* C34: the result of verifyMessage depends only on id, now, payload and   *)
(* signature: when type or status of a message are changed and these four  *)
(* fields are left, verifyMessage returns what it returned before, so a    *)
(* validly signed message stays valid.                                     *)
(***************************************************************************)
C34_VerifyIgnoresTypeAndStatus ==
    (codec.retyped # "none" /\ codec.verified # "none") => codec.verified = codec.retyped

C34_Witness ==
    /\ codec.stage = "signed"
    /\ codec.retyped = "true"
    /\ codec.verified = "true"
    /\ codec.msg.type # codec.signed.type
    /\ codec.msg.status # codec.signed.status
    /\ codec.msg.signature = codec.signed.signature

\* the step lets a send() of session s go on to signMessage
ServerSigns(s) ==
    \/ CountPc(inflight'[s], "sign") > CountPc(inflight[s], "sign")
    \/ \E k \in 1..Len(events') : events'[k] = Unhandled(s, "TypeError")
\* the step lets a send() of the Sporket go on to signMessage: the one of
\* #authenticate, or one of the application
SporketSigns ==
    \/ \E i \in 1..Len(spInflight) : SpResumes(i, "digest") /\ sp.socket = "OPEN"
    \/ Cardinality(AppSigns(spInflight')) > Cardinality(AppSigns(spInflight))

(***************************************************************************)
(* C32: no signing is done with an absent key: in every step in which      *)
(* ServerClient.send or Sporket.send goes on to signMessage, the key of    *)
(* the session, respectively of the Sporket, has been derived.             *)
(***************************************************************************)
C32_NoSignWithoutKey ==
    [][/\ \A s \in Sessions : ServerSigns(s) => IsCryptoKey(cryptoKey[s])
       /\ SporketSigns => IsCryptoKey(sp.cryptoKey)]_vars

\* the suspended ServerClient.send calls of session s made by Server.send or
\* Server.sendTo
ServerCalls(seq) == {i \in 1..Len(seq) : seq[i].cont \in {"broadcast", "sendTo"}}
\* the step has Server.send or Server.sendTo call ServerClient.send of session
\* s, or transmits the frame of such a call to the session
ServerSendsTo(s) ==
    \/ Cardinality(ServerCalls(inflight'[s])) > Cardinality(ServerCalls(inflight[s]))
    \/ \E k \in 1..Len(events') :
          /\ events'[k].src = "server" /\ events'[k].who = s
          /\ events'[k].name \in {"sendTo returned true", "sendTo rejected"}
          /\ Cardinality(ServerCalls(inflight'[s])) = Cardinality(ServerCalls(inflight[s]))
    \/ \E i \in Tasks(s) :
          /\ Resumes(s, i, "sign")
          /\ inflight[s][i].cont \in {"broadcast", "sendTo"}
          /\ \/ outbox'[s] # outbox[s]
             \/ \E k \in 1..Len(events') : events'[k].src = "wire" /\ events'[k].who = s

(***************************************************************************)
(* C31: once the Server has dispatched `clientdisconnect` for a session it *)
(* dispatches neither `clientdisconnect` again nor `clientconnect` nor     *)
(* `message` for it, and neither Server.send nor Server.sendTo sends to    *)
(* the session.                                                            *)
(***************************************************************************)
C31_NothingAfterClientDisconnect ==
    [][\A s \in srvHist.gone :
          /\ \A name \in {"clientdisconnect", "clientconnect", "message"} :
                Dispatched(events', "server", s, name) = {}
          /\ ~ServerSendsTo(s)]_vars

C31_Witness ==
    \E s \in srvHist.gone : \E k \in 1..Len(events) :
       /\ events[k].src = "server"
       /\ events[k].name = "sendTo returned false"
       /\ events[k].detail["uuid"] = Str(UuidOf(s))
       /\ s \in srvHist.connected
       /\ isAuthenticated[s]

(***************************************************************************)
(* C33: when Server.close() returns, which is when it has aborted the      *)
(* acceptor, the registry is empty and disconnect() has run on every       *)
(* session that was accepted, those accepted or authenticated during the   *)
(* two waits of close() included.                                          *)
(***************************************************************************)
C33_CloseLeavesNoSession ==
    [][(closePc = "wait500" /\ closePc' = "idle") =>
          /\ DOMAIN handles' = {}
          /\ \A s \in Sessions : sockState'[s] # "NONE" => aborted'[s]]_vars

====
